---- MODULE Spec2Model ----
(***************************************************************************)
(* A model of the chat-room server: the per-room event loop (Room), the    *)
(* room registry (roomStore), the Coordinator operations and the           *)
(* per-connection Client session (reader, writer pump, outbound channel).  *)
(*                                                                         *)
(* Every Coordinator call is split at each access to shared memory (the    *)
(* registry, a room's users map, a room's event channel, a send channel),  *)
(* so that the room loops, the sessions and the writer pumps interleave    *)
(* as the goroutines of the program do.                                    *)
(***************************************************************************)
EXTENDS Integers, Sequences, FiniteSets, TLC

(***************************************************************************)
(* Bounds of the model.                                                    *)
(***************************************************************************)
\* frames the peer of one session sends
MaxFrames == 2
\* events the environment of a stand-alone room submits
MaxOps == 5
\* capacity of a room's event channel (stands for the program's 128)
EventsCap == 3
\* capacity of the send channels the callers of a stand-alone room pass in
CallerCap == 2
\* rooms ever allocated by NewRoom
MaxRooms == 2

Sessions == {1, 2}
UserIds == {"u1", "u2"}
RoomIds == {"r1"}
Insts == 1..MaxRooms

VARIABLES
  registry,   \* roomStore.rooms: room id -> room instance (0: no entry)
  nextInst,   \* number of rooms allocated so far
  roomInfo,   \* per room: ID, Name, AuthorID
  rstate,     \* per room: "none" (not allocated), "running" (Run), "done" (Run returned)
  users,      \* per room: Room.users, user id -> User
  clients,    \* per room: Room.clients, user id -> send channel
  events,     \* per room: the content of Room.events
  enq,        \* per room: number of events ever submitted
  proc,       \* per room: the events Run has received so far, in order
  loop,       \* per room: where Run is (idle in select, or inside handleBroadcast)
  out,        \* per send channel: every value ever sent on it, in order
  rd,         \* per send channel: how many of them have been received
  closed,     \* per send channel: whether close() was called on it
  cap,        \* per send channel: its capacity
  sess,       \* per session: the Client fields and the reader's position
  writer,     \* per session: "run" or "done" (writePump returned)
  conn,       \* per session: "open" or "closed" (the websocket connection)
  cancelled,  \* per session: whether the session's context is cancelled
  panicked,   \* the process died of a run-time panic
  quota,      \* per session: frames its peer still sends
  nops,       \* events submitted by the callers of a stand-alone room
  wsServer,   \* WsServer: clients, clientDone, its context, watchClients
  shut        \* the shutdown goroutine of main: its position and locals

roomVars == <<roomInfo, rstate, users, clients, events, enq, proc, loop>>
chanVars == <<out, rd, closed, cap>>
sessVars == <<sess, writer, conn, cancelled>>
vars == <<registry, nextInst, roomInfo, rstate, users, clients, events, enq,
          proc, loop, out, rd, closed, cap, sess, writer, conn, cancelled,
          panicked, quota, nops, wsServer, shut>>

(***************************************************************************)
(* Values.                                                                 *)
(***************************************************************************)
EmptyMap == [x \in {} |-> 0]

\* m with key k bound to v (a Go map assignment m[k] = v)
MapPut(m, k, v) == [x \in (DOMAIN m) \cup {k} |-> IF x = k THEN v ELSE m[x]]

\* m without key k (Go's delete(m, k), a no-op for an absent key)
MapDel(m, k) == [x \in (DOMAIN m) \ {k} |-> m[x]]

User(id, name) == [ID |-> id, Name |-> name]

RoomClient(userID, user, send) == [UserID |-> userID, User |-> user, Send |-> send]

NoClient == RoomClient("", User("", ""), 0)

\* an outbound value; src, n and rcpt record which room's broadcast placed it
\* (src = 0: written directly by a session or by the Coordinator)
Envelope(type, room, user, name, text) ==
  [type |-> type, room |-> room, user |-> user, name |-> name, text |-> text,
   src |-> 0, n |-> 0, rcpt |-> ""]

NoMsg == Envelope("", "", "", "", "")

NewRoomEvent(roomID, authorID, name) == Envelope("new_room", roomID, authorID, name, "")

NewUserJoinedEvent(roomID, userID, userName) ==
  Envelope("user_joined", roomID, userID, userName, "")

NewUserLeftEvent(roomID, userID, userName) ==
  Envelope("user_left", roomID, userID, userName, "")

NewRoomMessageEvent(roomID, userID, userName, message) ==
  Envelope("new_message", roomID, userID, userName, message)

NewJoinSuccess(roomID, userID) == Envelope("join_success", roomID, userID, "", "")

ErrorPayload(code) == Envelope("error", "", "", "", code)

\* a Client as ServeHTTP makes it, with the reader's local variables (room is
\* the room LeaveRoom, JoinRoom, SendMessage or CreateRoom works on, gc the one
\* deleteRoomIfEmpty looked up)
NewClient ==
  [userID |-> "", userName |-> "", rooms |-> {}, pc |-> "read",
   roomID |-> "", roomName |-> "", content |-> 0, code |-> "", room |-> 0,
   gc |-> 0, name |-> "", mode |-> "cmd", todo |-> {}, frame |-> 0]

NewRoom(id, name, authorID) == [ID |-> id, Name |-> name, AuthorID |-> authorID]

NoRoom == NewRoom("", "", "")

roomEvent(kind, client, userID, msg, n) ==
  [kind |-> kind, client |-> client, userID |-> userID, msg |-> msg, n |-> n]

(***************************************************************************)
(* Send channels (Client.send).                                            *)
(***************************************************************************)
Buffered(c) == SubSeq(out[c], rd[c] + 1, Len(out[c]))

Full(c) == Len(out[c]) - rd[c] >= cap[c]

\* send <- e by a goroutine that blocks while the buffer is full; a send on a
\* closed channel panics
ChanSend(c, e) ==
  IF closed[c]
  THEN /\ panicked' = TRUE
       /\ UNCHANGED out
  ELSE /\ ~Full(c)
       /\ out' = [out EXCEPT ![c] = Append(@, e)]
       /\ UNCHANGED panicked

(***************************************************************************)
(* Room.                                                                   *)
(***************************************************************************)
IdleLoop == [pc |-> "idle", msg |-> NoMsg, n |-> 0, pending |-> EmptyMap]

\* r.events <- ev : blocks while the event channel is full
Enqueue(i, kind, client, userID, msg) ==
  /\ Len(events[i]) < EventsCap
  /\ events' = [events EXCEPT ![i] = Append(@, roomEvent(kind, client, userID, msg, enq[i] + 1))]
  /\ enq' = [enq EXCEPT ![i] = @ + 1]

EnqueueJoin(i, c) == Enqueue(i, "join", c, "", NoMsg)

EnqueueLeave(i, userID) == Enqueue(i, "leave", NoClient, userID, NoMsg)

EnqueueBroadcast(i, msg) == Enqueue(i, "broadcast", NoClient, "", msg)

EnqueueClose(i) == Enqueue(i, "close", NoClient, "", NoMsg)

\* what the history of a room keeps of an event: its tag, its kind, the user
\* of a Join or Leave, the type and the user of a broadcast value
Entry(ev) ==
  [n |-> ev.n, kind |-> ev.kind,
   user |-> IF ev.kind = "join" THEN ev.client.UserID ELSE ev.userID,
   what |-> ev.msg.type, who |-> ev.msg.user,
   name |-> IF ev.kind = "join" THEN ev.client.User.Name ELSE ev.msg.name]

\* the events submitted to a room so far, in the order of submission: those
\* Run has received, then those still in the channel
HistOf(received, pending) ==
  received \o [k \in 1..Len(pending) |-> Entry(pending[k])]

Hist(i) == HistOf(proc[i], events[i])

\* (a variant of NextEvent that takes the newest event, not the oldest)
NextEvent_newest(i) == events[i][Len(events[i])]

\* the event a receive on r.events yields
NextEvent(i) == Head(events[i])

\* (a variant of handleJoin that forgets the send channel)
handleJoin_noSink(i, client) ==
  /\ users' = [users EXCEPT ![i] = MapPut(@, client.UserID, client.User)]
  /\ UNCHANGED <<clients, loop, rstate, closed, panicked>>

handleJoin(i, client) ==
  /\ users' = [users EXCEPT ![i] = MapPut(@, client.UserID, client.User)]
  /\ clients' = [clients EXCEPT ![i] = MapPut(@, client.UserID, client.Send)]
  /\ UNCHANGED <<loop, rstate, closed, panicked>>

\* (a variant of handleLeave that keeps the send channel of the user)
handleLeave_keepSink(i, userID) ==
  /\ users' = [users EXCEPT ![i] = MapDel(@, userID)]
  /\ UNCHANGED <<clients, closed, panicked, loop, rstate>>

\* (a variant of handleLeave that forgets the send channel without closing it)
handleLeave_noClose(i, userID) ==
  /\ users' = [users EXCEPT ![i] = MapDel(@, userID)]
  /\ clients' = [clients EXCEPT ![i] = MapDel(@, userID)]
  /\ UNCHANGED <<closed, panicked, loop, rstate>>

handleLeave(i, userID) ==
  /\ users' = [users EXCEPT ![i] = MapDel(@, userID)]
  /\ IF userID \in DOMAIN clients[i]
     THEN /\ clients' = [clients EXCEPT ![i] = MapDel(@, userID)]
          /\ IF closed[clients[i][userID]]
             THEN panicked' = TRUE /\ UNCHANGED closed
             ELSE closed' = [closed EXCEPT ![clients[i][userID]] = TRUE]
                  /\ UNCHANGED panicked
     ELSE UNCHANGED <<clients, closed, panicked>>
  /\ UNCHANGED <<loop, rstate>>

\* (a variant of handleBroadcast that leaves out the user the value is from)
handleBroadcast_others(i, msg, n) ==
  /\ loop' = [loop EXCEPT ![i] =
       IF DOMAIN clients[i] \ {msg.user} = {} THEN IdleLoop
       ELSE [pc |-> "fanout", msg |-> msg, n |-> n,
             pending |-> MapDel(clients[i], msg.user)]]
  /\ UNCHANGED <<users, clients, rstate, closed, panicked>>

\* the snapshot of r.clients handleBroadcast takes under the read lock
handleBroadcast(i, msg, n) ==
  /\ loop' = [loop EXCEPT ![i] =
       IF DOMAIN clients[i] = {} THEN IdleLoop
       ELSE [pc |-> "fanout", msg |-> msg, n |-> n, pending |-> clients[i]]]
  /\ UNCHANGED <<users, clients, rstate, closed, panicked>>

cleanup(i) ==
  /\ clients' = [clients EXCEPT ![i] = EmptyMap]
  /\ users' = [users EXCEPT ![i] = EmptyMap]
  /\ rstate' = [rstate EXCEPT ![i] = "done"]
  /\ UNCHANGED <<loop, closed, panicked>>

\* Run: one receive from r.events and the handler of the event
RoomRecv(i) ==
  /\ ~panicked
  /\ rstate[i] = "running"
  /\ loop[i].pc = "idle"
  /\ events[i] # <<>>
  /\ LET ev == NextEvent(i) IN
       /\ events' = [events EXCEPT ![i] = SelectSeq(@, LAMBDA e : e.n # ev.n)]
       /\ proc' = [proc EXCEPT ![i] = Append(@, Entry(ev))]
       /\ CASE ev.kind = "join" -> handleJoin(i, ev.client)
            [] ev.kind = "leave" -> handleLeave(i, ev.userID)
            [] ev.kind = "broadcast" -> handleBroadcast(i, ev.msg, ev.n)
            [] OTHER -> cleanup(i)
  /\ UNCHANGED <<registry, nextInst, roomInfo, enq, out, rd, cap, sessVars, quota, nops, wsServer, shut>>

\* handleBroadcast: the value is sent to one recipient of the snapshot
RoomSend(i, u) ==
  /\ ~panicked
  /\ rstate[i] = "running"
  /\ loop[i].pc = "fanout"
  /\ u \in DOMAIN loop[i].pending
  /\ ChanSend(loop[i].pending[u],
              [loop[i].msg EXCEPT !.src = i, !.n = loop[i].n, !.rcpt = u])
  /\ loop' = [loop EXCEPT ![i] =
       IF DOMAIN @.pending = {u} THEN IdleLoop
       ELSE [@ EXCEPT !.pending = MapDel(@, u)]]
  /\ UNCHANGED <<registry, nextInst, roomInfo, rstate, users, clients, events,
                 enq, proc, rd, closed, cap, sessVars, quota, nops, wsServer, shut>>

\* (a variant of RoomSkip for a select without the time.After case)
RoomSkip_never(i, u) ==
  /\ FALSE
  /\ UNCHANGED vars

\* handleBroadcast: the recipient's channel stayed full for 100 ms, the value
\* is dropped for this recipient
RoomSkip(i, u) ==
  /\ ~panicked
  /\ rstate[i] = "running"
  /\ loop[i].pc = "fanout"
  /\ u \in DOMAIN loop[i].pending
  /\ ~closed[loop[i].pending[u]]
  /\ Full(loop[i].pending[u])
  /\ loop' = [loop EXCEPT ![i] =
       IF DOMAIN @.pending = {u} THEN IdleLoop
       ELSE [@ EXCEPT !.pending = MapDel(@, u)]]
  /\ UNCHANGED <<registry, nextInst, roomInfo, rstate, users, clients, events,
                 enq, proc, chanVars, sessVars, panicked, quota, nops, wsServer, shut>>

(***************************************************************************)
(* Client: the writer pump.                                                *)
(***************************************************************************)
\* writePump: a value is received from c.send and written to the connection;
\* a failed write makes the pump return, and its deferred conn.Close() runs
WriterRecv(s) ==
  /\ ~panicked
  /\ writer[s] = "run"
  /\ rd[s] < Len(out[s])
  /\ rd' = [rd EXCEPT ![s] = @ + 1]
  /\ IF conn[s] = "open"
     THEN UNCHANGED <<writer, conn>>
     ELSE writer' = [writer EXCEPT ![s] = "done"] /\ UNCHANGED conn
  /\ UNCHANGED <<registry, nextInst, roomVars, out, closed, cap, sess,
                 cancelled, panicked, quota, nops, wsServer, shut>>

\* writePump: c.send was closed; the pump receives and writes the values that
\* are still buffered
WriterDrain(s) ==
  /\ ~panicked
  /\ writer[s] = "run"
  /\ closed[s]
  /\ rd[s] < Len(out[s])
  /\ rd' = [rd EXCEPT ![s] = Len(out[s])]
  /\ IF conn[s] = "open"
     THEN UNCHANGED <<writer, conn>>
     ELSE writer' = [writer EXCEPT ![s] = "done"] /\ UNCHANGED conn
  /\ UNCHANGED <<registry, nextInst, roomVars, out, closed, cap, sess,
                 cancelled, panicked, quota, nops, wsServer, shut>>

\* writePump: c.send is closed and drained (the close message is written), or
\* the context is done; the pump returns and closes the connection
WriterStop(s) ==
  /\ ~panicked
  /\ writer[s] = "run"
  /\ \/ closed[s] /\ rd[s] = Len(out[s])
     \/ cancelled[s]
  /\ writer' = [writer EXCEPT ![s] = "done"]
  /\ conn' = [conn EXCEPT ![s] = "closed"]
  /\ UNCHANGED <<registry, nextInst, roomVars, chanVars, sess, cancelled,
                 panicked, quota, nops, wsServer, shut>>

(***************************************************************************)
(* roomStore.                                                              *)
(***************************************************************************)
\* Load: the room stored under id, 0 when there is none
Load(id) == IF id \in DOMAIN registry THEN registry[id] ELSE 0

(***************************************************************************)
(* Client: the reader.  A session's reader is at "read" between two        *)
(* frames; the other values of pc are the places inside a handler, or      *)
(* inside the Coordinator call the handler makes, where the next step      *)
(* touches shared memory.                                                  *)
(***************************************************************************)
Frame(type, roomID, roomName, userID, userName, message) ==
  [type |-> type, RoomID |-> roomID, RoomName |-> roomName, UserID |-> userID,
   UserName |-> userName, Message |-> message]

\* the capacity of the send channel ServeHTTP makes for a Client
SendCap == 32

\* the longest content SendMessage accepts, in bytes (a content is modelled
\* by its length)
MaxContent == 10240

maxMessageSize == 10240

\* the capacity of WsServer.clientDone
ClientDoneCap == 128

\* the reader of s is blocked in conn.ReadMessage and a frame can arrive
CanRead(s) ==
  /\ ~panicked
  /\ sess[s].pc = "read"
  /\ conn[s] = "open"
  /\ quota[s] > 0

OnlySess == UNCHANGED <<registry, nextInst, roomVars, chanVars, writer, conn,
                        cancelled, panicked, quota, nops, wsServer, shut>>

\* one frame of the peer is consumed
FrameRead(s) ==
  /\ quota' = [quota EXCEPT ![s] = @ - 1]
  /\ UNCHANGED <<registry, nextInst, roomVars, chanVars, writer, conn,
                 cancelled, panicked, nops, wsServer, shut>>

\* the reader goes on to report an error with sendError(code, ...)
Fail(c, code) == [c EXCEPT !.pc = "sendError", !.code = code]

\* (a variant of ensureIdentity that takes the name of a repeated bind)
ensureIdentity_rename(c, userID, userName) ==
  IF c.userID = "" \/ c.userID = userID
  THEN [c |-> [c EXCEPT !.userID = userID, !.userName = userName], err |-> FALSE]
  ELSE [c |-> c, err |-> TRUE]

\* ensureIdentity: the client after the call, and whether it returned an error
ensureIdentity(c, userID, userName) ==
  IF c.userID = ""
  THEN [c |-> [c EXCEPT !.userID = userID, !.userName = userName], err |-> FALSE]
  ELSE IF c.userID # userID
       THEN [c |-> c, err |-> TRUE]
       ELSE [c |-> c, err |-> FALSE]

\* handleCreateRoom, up to the call of Coordinator.CreateRoom
handleCreateRoom(s, p) ==
  /\ CanRead(s)
  /\ LET c0 == sess[s]
         b == IF p.UserID # "" \/ p.UserName # ""
              THEN ensureIdentity(c0, p.UserID, p.UserName)
              ELSE [c |-> c0, err |-> FALSE]
     IN sess' = [sess EXCEPT ![s] =
          IF b.err THEN Fail(b.c, "identity_error")
          ELSE IF b.c.userID = "" THEN Fail(b.c, "identity_error")
          ELSE [b.c EXCEPT !.rooms = @ \cup {p.RoomID}, !.roomID = p.RoomID,
                           !.roomName = p.RoomName, !.pc = "cr_load"]]
  /\ FrameRead(s)

\* (a variant of CreateRoomLoad without the look-up of the room id)
CreateRoomLoad_noLoad(s) ==
  /\ ~panicked
  /\ sess[s].pc = "cr_load"
  /\ sess' = [sess EXCEPT ![s] =
       IF @.roomID = "" \/ @.roomName = "" THEN Fail(@, "create_room_error")
       ELSE [@ EXCEPT !.pc = "cr_store"]]
  /\ OnlySess

\* CreateRoom: the argument check and c.rooms.Load(roomID)
CreateRoomLoad(s) ==
  /\ ~panicked
  /\ sess[s].pc = "cr_load"
  /\ sess' = [sess EXCEPT ![s] =
       IF @.roomID = "" \/ @.roomName = "" THEN Fail(@, "create_room_error")
       ELSE IF Load(@.roomID) # 0 THEN Fail(@, "create_room_error")
       ELSE [@ EXCEPT !.pc = "cr_store"]]
  /\ OnlySess

\* CreateRoom: NewRoom, c.rooms.Store(roomID, room) and go room.Run()
CreateRoomStore(s) ==
  /\ ~panicked
  /\ sess[s].pc = "cr_store"
  /\ nextInst < MaxRooms
  /\ LET i == nextInst + 1 IN
       /\ nextInst' = i
       /\ roomInfo' = [roomInfo EXCEPT ![i] = NewRoom(sess[s].roomID, sess[s].roomName, sess[s].userID)]
       /\ registry' = [registry EXCEPT ![sess[s].roomID] = i]
       /\ rstate' = [rstate EXCEPT ![i] = "running"]
       /\ sess' = [sess EXCEPT ![s] = [@ EXCEPT !.room = i, !.pc = "cr_join"]]
  /\ UNCHANGED <<users, clients, events, enq, proc, loop, chanVars, writer,
                 conn, cancelled, panicked, quota, nops, wsServer, shut>>

\* CreateRoom: room.EnqueueJoin(roomClient) of the author
CreateRoomJoin(s) ==
  /\ ~panicked
  /\ sess[s].pc = "cr_join"
  /\ EnqueueJoin(sess[s].room,
       RoomClient(sess[s].userID, User(sess[s].userID, sess[s].userID), s))
  /\ sess' = [sess EXCEPT ![s] = [@ EXCEPT !.pc = "cr_send"]]
  /\ UNCHANGED <<registry, nextInst, roomInfo, rstate, users, clients, proc,
                 loop, chanVars, writer, conn, cancelled, panicked, quota, nops, wsServer, shut>>

\* CreateRoom: send <- messages.NewRoom(...), then return nil
CreateRoomSend(s) ==
  /\ ~panicked
  /\ sess[s].pc = "cr_send"
  /\ ChanSend(s, NewRoomEvent(sess[s].roomID, sess[s].userID, sess[s].roomName))
  /\ sess' = [sess EXCEPT ![s] = [@ EXCEPT !.pc = "read"]]
  /\ UNCHANGED <<registry, nextInst, roomVars, rd, closed, cap, writer, conn,
                 cancelled, quota, nops, wsServer, shut>>

\* sendError: c.send <- messages.ErrorPayload{...}
sendError(s) ==
  /\ ~panicked
  /\ sess[s].pc = "sendError"
  /\ ChanSend(s, ErrorPayload(sess[s].code))
  /\ sess' = [sess EXCEPT ![s] = [@ EXCEPT !.pc = "read", !.code = ""]]
  /\ UNCHANGED <<registry, nextInst, roomVars, rd, closed, cap, writer, conn,
                 cancelled, quota, nops, wsServer, shut>>

\* (a variant of handleJoinRoom that records the room before the call, as
\* handleCreateRoom does)
handleJoinRoom_record(s, p) ==
  /\ CanRead(s)
  /\ LET c0 == sess[s]
         userID == IF p.UserID = "" THEN c0.userID ELSE p.UserID
         userName == IF p.UserName = "" THEN c0.userName ELSE p.UserName
         b == ensureIdentity(c0, userID, userName)
     IN sess' = [sess EXCEPT ![s] =
          IF b.err THEN Fail(b.c, "identity_error")
          ELSE [b.c EXCEPT !.rooms = @ \cup {p.RoomID}, !.roomID = p.RoomID,
                           !.pc = "jn_load"]]
  /\ FrameRead(s)

\* handleJoinRoom, up to the call of Coordinator.JoinRoom
handleJoinRoom(s, p) ==
  /\ CanRead(s)
  /\ LET c0 == sess[s]
         userID == IF p.UserID = "" THEN c0.userID ELSE p.UserID
         userName == IF p.UserName = "" THEN c0.userName ELSE p.UserName
         b == ensureIdentity(c0, userID, userName)
     IN sess' = [sess EXCEPT ![s] =
          IF b.err THEN Fail(b.c, "identity_error")
          ELSE [b.c EXCEPT !.roomID = p.RoomID, !.pc = "jn_load"]]
  /\ FrameRead(s)

\* (a variant of JoinRoomLoad without the check of userID and userName)
JoinRoomLoad_noArgs(s) ==
  /\ ~panicked
  /\ sess[s].pc = "jn_load"
  /\ sess' = [sess EXCEPT ![s] =
       IF Load(@.roomID) = 0 THEN Fail(@, "join_room_error")
       ELSE [@ EXCEPT !.room = Load(sess[s].roomID), !.pc = "jn_users"]]
  /\ OnlySess

\* JoinRoom: c.GetRoom(roomID) and the check of userID and userName
JoinRoomLoad(s) ==
  /\ ~panicked
  /\ sess[s].pc = "jn_load"
  /\ sess' = [sess EXCEPT ![s] =
       IF Load(@.roomID) = 0 THEN Fail(@, "join_room_error")
       ELSE IF @.userID = "" \/ @.userName = "" THEN Fail(@, "join_room_error")
       ELSE [@ EXCEPT !.room = Load(sess[s].roomID), !.pc = "jn_users"]]
  /\ OnlySess

\* (a variant of JoinRoomUsers without the membership check)
JoinRoomUsers_noCheck(s) ==
  /\ ~panicked
  /\ sess[s].pc = "jn_users"
  /\ sess' = [sess EXCEPT ![s] = [@ EXCEPT !.pc = "jn_join"]]
  /\ OnlySess

\* JoinRoom: room.GetUsers() and the membership check
JoinRoomUsers(s) ==
  /\ ~panicked
  /\ sess[s].pc = "jn_users"
  /\ sess' = [sess EXCEPT ![s] =
       IF @.userID \in DOMAIN users[@.room] THEN Fail(@, "join_room_error")
       ELSE [@ EXCEPT !.pc = "jn_join"]]
  /\ OnlySess

\* (a variant of JoinRoomJoin that submits no Join)
JoinRoomJoin_skip(s) ==
  /\ ~panicked
  /\ sess[s].pc = "jn_join"
  /\ sess' = [sess EXCEPT ![s] = [@ EXCEPT !.pc = "jn_bcast"]]
  /\ OnlySess

\* JoinRoom: room.EnqueueJoin(roomClient)
JoinRoomJoin(s) ==
  /\ ~panicked
  /\ sess[s].pc = "jn_join"
  /\ EnqueueJoin(sess[s].room,
       RoomClient(sess[s].userID, User(sess[s].userID, sess[s].userName), s))
  /\ sess' = [sess EXCEPT ![s] = [@ EXCEPT !.pc = "jn_bcast"]]
  /\ UNCHANGED <<registry, nextInst, roomInfo, rstate, users, clients, proc,
                 loop, chanVars, writer, conn, cancelled, panicked, quota, nops, wsServer, shut>>

\* JoinRoom: room.EnqueueBroadcast(joinMessage) and return nil; handleJoinRoom
\* then records the room in c.rooms
JoinRoomBroadcast(s) ==
  /\ ~panicked
  /\ sess[s].pc = "jn_bcast"
  /\ EnqueueBroadcast(sess[s].room,
       NewUserJoinedEvent(sess[s].roomID, sess[s].userID, sess[s].userName))
  /\ sess' = [sess EXCEPT ![s] = [@ EXCEPT !.rooms = @ \cup {sess[s].roomID},
                                            !.pc = "jn_ok"]]
  /\ UNCHANGED <<registry, nextInst, roomInfo, rstate, users, clients, proc,
                 loop, chanVars, writer, conn, cancelled, panicked, quota, nops, wsServer, shut>>

\* (a variant of JoinSuccess that returns without the write)
JoinSuccess_silent(s) ==
  /\ ~panicked
  /\ sess[s].pc = "jn_ok"
  /\ sess' = [sess EXCEPT ![s] = [@ EXCEPT !.pc = "read"]]
  /\ OnlySess

\* handleJoinRoom: c.send <- messages.NewJoinSuccess(...)
JoinSuccess(s) ==
  /\ ~panicked
  /\ sess[s].pc = "jn_ok"
  /\ ChanSend(s, NewJoinSuccess(sess[s].roomID, sess[s].userID))
  /\ sess' = [sess EXCEPT ![s] = [@ EXCEPT !.pc = "read"]]
  /\ UNCHANGED <<registry, nextInst, roomVars, rd, closed, cap, writer, conn,
                 cancelled, quota, nops, wsServer, shut>>

\* (a variant of handleLeaveRoom without the look-up in c.rooms)
handleLeaveRoom_noCheck(s, p) ==
  /\ CanRead(s)
  /\ sess' = [sess EXCEPT ![s] =
       [@ EXCEPT !.roomID = p.RoomID, !.mode = "cmd", !.pc = "lv_load"]]
  /\ FrameRead(s)

\* handleLeaveRoom, up to the call of Coordinator.LeaveRoom
handleLeaveRoom(s, p) ==
  /\ CanRead(s)
  /\ LET c0 == sess[s] IN
       sess' = [sess EXCEPT ![s] =
         IF p.RoomID \notin c0.rooms THEN Fail(c0, "leave_room_error")
         ELSE [c0 EXCEPT !.roomID = p.RoomID, !.mode = "cmd", !.pc = "lv_load"]]
  /\ FrameRead(s)

\* LeaveRoom returned an error: handleLeaveRoom reports it, cleanup logs it
LeaveFailed(c) ==
  IF c.mode = "cmd" THEN Fail(c, "leave_room_error")
  ELSE [c EXCEPT !.pc = "cleanup"]

\* LeaveRoom returned nil: handleLeaveRoom deletes the room from c.rooms,
\* cleanup goes on with the next room
LeaveDone(c) ==
  IF c.mode = "cmd" THEN [c EXCEPT !.rooms = @ \ {c.roomID}, !.pc = "read"]
  ELSE [c EXCEPT !.pc = "cleanup"]

\* LeaveRoom: c.GetRoom(roomID)
LeaveRoomLoad(s) ==
  /\ ~panicked
  /\ sess[s].pc = "lv_load"
  /\ sess' = [sess EXCEPT ![s] =
       IF Load(@.roomID) = 0 THEN LeaveFailed(@)
       ELSE [@ EXCEPT !.room = Load(sess[s].roomID), !.pc = "lv_users"]]
  /\ OnlySess

\* (a variant of LeaveRoomUsers without the membership check)
LeaveRoomUsers_noCheck(s) ==
  /\ ~panicked
  /\ sess[s].pc = "lv_users"
  /\ sess' = [sess EXCEPT ![s] =
       [@ EXCEPT !.name = IF sess[s].userID \in DOMAIN users[sess[s].room]
                          THEN users[sess[s].room][sess[s].userID].Name ELSE "",
                 !.pc = "lv_leave"]]
  /\ OnlySess

\* LeaveRoom: room.GetUsers() and the membership check
LeaveRoomUsers(s) ==
  /\ ~panicked
  /\ sess[s].pc = "lv_users"
  /\ sess' = [sess EXCEPT ![s] =
       IF @.userID \notin DOMAIN users[@.room] THEN LeaveFailed(@)
       ELSE [@ EXCEPT !.name = users[sess[s].room][sess[s].userID].Name, !.pc = "lv_leave"]]
  /\ OnlySess

\* LeaveRoom: room.EnqueueLeave(userID)
LeaveRoomLeave(s) ==
  /\ ~panicked
  /\ sess[s].pc = "lv_leave"
  /\ EnqueueLeave(sess[s].room, sess[s].userID)
  /\ sess' = [sess EXCEPT ![s] = [@ EXCEPT !.pc = "lv_bcast"]]
  /\ UNCHANGED <<registry, nextInst, roomInfo, rstate, users, clients, proc,
                 loop, chanVars, writer, conn, cancelled, panicked, quota, nops, wsServer, shut>>

\* LeaveRoom: room.EnqueueBroadcast(leaveMessage)
LeaveRoomBroadcast(s) ==
  /\ ~panicked
  /\ sess[s].pc = "lv_bcast"
  /\ EnqueueBroadcast(sess[s].room,
       NewUserLeftEvent(sess[s].roomID, sess[s].userID, sess[s].name))
  /\ sess' = [sess EXCEPT ![s] = [@ EXCEPT !.pc = "lv_gc"]]
  /\ UNCHANGED <<registry, nextInst, roomInfo, rstate, users, clients, proc,
                 loop, chanVars, writer, conn, cancelled, panicked, quota, nops, wsServer, shut>>

\* deleteRoomIfEmpty: c.GetRoom(roomID), a second look-up by id
DeleteRoomLoad(s) ==
  /\ ~panicked
  /\ sess[s].pc = "lv_gc"
  /\ sess' = [sess EXCEPT ![s] =
       IF Load(@.roomID) = 0 THEN LeaveDone(@)
       ELSE [@ EXCEPT !.gc = Load(sess[s].roomID), !.pc = "lv_count"]]
  /\ OnlySess

\* deleteRoomIfEmpty: room.GetUserCount() == 0
DeleteRoomCount(s) ==
  /\ ~panicked
  /\ sess[s].pc = "lv_count"
  /\ sess' = [sess EXCEPT ![s] =
       IF Cardinality(DOMAIN users[@.gc]) = 0 THEN [@ EXCEPT !.pc = "lv_delete"]
       ELSE LeaveDone(@)]
  /\ OnlySess

\* deleteRoomIfEmpty: c.rooms.Delete(roomID)
DeleteRoomDelete(s) ==
  /\ ~panicked
  /\ sess[s].pc = "lv_delete"
  /\ registry' = [registry EXCEPT ![sess[s].roomID] = 0]
  /\ sess' = [sess EXCEPT ![s] = [@ EXCEPT !.pc = "lv_close"]]
  /\ UNCHANGED <<nextInst, roomVars, chanVars, writer, conn, cancelled,
                 panicked, quota, nops, wsServer, shut>>

\* deleteRoomIfEmpty: room.EnqueueClose(), then LeaveRoom returns nil
DeleteRoomClose(s) ==
  /\ ~panicked
  /\ sess[s].pc = "lv_close"
  /\ EnqueueClose(sess[s].gc)
  /\ sess' = [sess EXCEPT ![s] = LeaveDone(@)]
  /\ UNCHANGED <<registry, nextInst, roomInfo, rstate, users, clients, proc,
                 loop, chanVars, writer, conn, cancelled, panicked, quota, nops, wsServer, shut>>

\* handleChatMessage, up to the call of Coordinator.SendMessage
handleChatMessage(s, p) ==
  /\ CanRead(s)
  /\ LET c0 == sess[s] IN
       sess' = [sess EXCEPT ![s] =
         IF p.RoomID = "" THEN Fail(c0, "message_error")
         ELSE IF p.RoomID \notin c0.rooms THEN Fail(c0, "message_error")
         ELSE [c0 EXCEPT !.roomID = p.RoomID, !.content = p.Message, !.pc = "sm_load"]]
  /\ FrameRead(s)

\* (a variant of SendMessageLoad that rejects content of exactly the limit)
SendMessageLoad_offByOne(s) ==
  /\ ~panicked
  /\ sess[s].pc = "sm_load"
  /\ sess' = [sess EXCEPT ![s] =
       IF @.content = 0 THEN Fail(@, "message_error")
       ELSE IF @.content >= MaxContent THEN Fail(@, "message_error")
       ELSE IF Load(@.roomID) = 0 THEN Fail(@, "message_error")
       ELSE [@ EXCEPT !.room = Load(sess[s].roomID), !.pc = "sm_users"]]
  /\ OnlySess

\* SendMessage: the checks of content and c.GetRoom(roomID)
SendMessageLoad(s) ==
  /\ ~panicked
  /\ sess[s].pc = "sm_load"
  /\ sess' = [sess EXCEPT ![s] =
       IF @.content = 0 THEN Fail(@, "message_error")
       ELSE IF @.content > MaxContent THEN Fail(@, "message_error")
       ELSE IF Load(@.roomID) = 0 THEN Fail(@, "message_error")
       ELSE [@ EXCEPT !.room = Load(sess[s].roomID), !.pc = "sm_users"]]
  /\ OnlySess

\* SendMessage: room.GetUsers() and the membership check
SendMessageUsers(s) ==
  /\ ~panicked
  /\ sess[s].pc = "sm_users"
  /\ sess' = [sess EXCEPT ![s] =
       IF @.userID \notin DOMAIN users[@.room] THEN Fail(@, "message_error")
       ELSE [@ EXCEPT !.name = users[sess[s].room][sess[s].userID].Name, !.pc = "sm_bcast"]]
  /\ OnlySess

\* SendMessage: room.EnqueueBroadcast(msg), then return nil
SendMessageBroadcast(s) ==
  /\ ~panicked
  /\ sess[s].pc = "sm_bcast"
  /\ EnqueueBroadcast(sess[s].room,
       NewRoomMessageEvent(sess[s].roomID, sess[s].userID, sess[s].name, sess[s].content))
  /\ sess' = [sess EXCEPT ![s] = [@ EXCEPT !.pc = "read"]]
  /\ UNCHANGED <<registry, nextInst, roomInfo, rstate, users, clients, proc,
                 loop, chanVars, writer, conn, cancelled, panicked, quota, nops, wsServer, shut>>

\* readPump: conn.ReadMessage fails on the closed connection, or readMessage
\* returned another error (pc rm_exit); the loop breaks and the deferred
\* cleanup starts: c.cancel(), then the loop over c.rooms
ReaderExit(s) ==
  /\ ~panicked
  /\ \/ sess[s].pc = "read" /\ conn[s] = "closed"
     \/ sess[s].pc = "rm_exit"
  /\ cancelled' = [cancelled EXCEPT ![s] = TRUE]
  /\ sess' = [sess EXCEPT ![s] =
       IF @.userID # "" THEN [@ EXCEPT !.mode = "cleanup", !.todo = sess[s].rooms, !.pc = "cleanup"]
       ELSE [@ EXCEPT !.pc = "exited"]]
  /\ UNCHANGED <<registry, nextInst, roomVars, chanVars, writer, conn,
                 panicked, quota, nops, wsServer, shut>>

\* cleanup: the next room of the range over c.rooms, or the end of it
CleanupNext(s) ==
  /\ ~panicked
  /\ sess[s].pc = "cleanup"
  /\ \/ /\ sess[s].todo = {}
        /\ sess' = [sess EXCEPT ![s] = [@ EXCEPT !.pc = "exited"]]
     \/ \E r \in sess[s].todo :
          sess' = [sess EXCEPT ![s] = [@ EXCEPT !.todo = @ \ {r}, !.roomID = r,
                                                !.pc = "lv_load"]]
  /\ OnlySess

\* NewWsServer: an empty clients map, an empty clientDone channel, a live
\* context, watchClients started
NewWsServer == [clients |-> {}, clientDone |-> <<>>, ctxDone |-> FALSE, watch |-> "run"]

\* main before a signal arrives: the shutdown goroutine waits on sigChan
\* (ctxDone: the deadline of its context has passed; conns: the clients
\* WsServer.Shutdown copied; visit, seen: the keys the range of
\* Coordinator.Shutdown has still to visit and the map as its last step saw
\* it; rooms, room: the rooms it copied and the one it closes; wsErr,
\* coordErr: what the two calls returned)
NoShutdown ==
  [pc |-> "idle", ctxDone |-> FALSE, conns |-> {}, visit |-> {},
   seen |-> [r \in RoomIds |-> 0], rooms |-> {}, room |-> 0,
   wsErr |-> "none", coordErr |-> "none"]

(***************************************************************************)
(* Initial states.                                                         *)
(***************************************************************************)
InitChans(capacity) ==
  /\ out = [c \in Sessions |-> <<>>]
  /\ rd = [c \in Sessions |-> 0]
  /\ closed = [c \in Sessions |-> FALSE]
  /\ cap = [c \in Sessions |-> capacity]
  /\ sess = [s \in Sessions |-> NewClient]
  /\ writer = [s \in Sessions |-> "run"]
  /\ conn = [s \in Sessions |-> "open"]
  /\ cancelled = [s \in Sessions |-> FALSE]
  /\ panicked = FALSE
  /\ nops = 0
  /\ wsServer = NewWsServer
  /\ shut = NoShutdown

\* the server after start-up: no room, every session accepted and unbound
Init ==
  /\ registry = [r \in RoomIds |-> 0]
  /\ nextInst = 0
  /\ roomInfo = [i \in Insts |-> NoRoom]
  /\ rstate = [i \in Insts |-> "none"]
  /\ users = [i \in Insts |-> EmptyMap]
  /\ clients = [i \in Insts |-> EmptyMap]
  /\ events = [i \in Insts |-> <<>>]
  /\ enq = [i \in Insts |-> 0]
  /\ proc = [i \in Insts |-> <<>>]
  /\ loop = [i \in Insts |-> IdleLoop]
  /\ InitChans(SendCap)
  /\ quota = [s \in Sessions |-> MaxFrames]

(***************************************************************************)
(* The server: sessions whose peers send frames, the rooms they create,    *)
(* the writer pumps.  A peer sends at most MaxFrames frames, so that a     *)
(* send channel never holds SendCap values (NoFullChannel): no send on it  *)
(* waits, handleBroadcast's timeout is never taken, and what the writer    *)
(* pump receives before the channel is closed changes nothing the other    *)
(* goroutines see.  The pump's receives are therefore taken together, in   *)
(* WriterDrain, once the channel is closed.                                *)
(***************************************************************************)
Frames ==
  [create |-> {Frame("create_room", "r1", "n", "u1", "a", 0)},
   join |-> {Frame("join", "r1", "", "u2", "a", 0)},
   leave |-> {Frame("leave", "r1", "", "", "", 0)},
   message |-> {Frame("message", "r1", "", "", "", 1)}]

Reader(s, F) ==
  \/ \E p \in F.create : handleCreateRoom(s, p)
  \/ \E p \in F.join : handleJoinRoom(s, p)
  \/ \E p \in F.leave : handleLeaveRoom(s, p)
  \/ \E p \in F.message : handleChatMessage(s, p)
  \/ sendError(s)
  \/ ReaderExit(s)
  \/ CleanupNext(s)

Coordinator(s) ==
  \/ CreateRoomLoad(s) \/ CreateRoomStore(s) \/ CreateRoomJoin(s) \/ CreateRoomSend(s)
  \/ JoinRoomLoad(s) \/ JoinRoomUsers(s) \/ JoinRoomJoin(s) \/ JoinRoomBroadcast(s)
  \/ JoinSuccess(s)
  \/ LeaveRoomLoad(s) \/ LeaveRoomUsers(s) \/ LeaveRoomLeave(s) \/ LeaveRoomBroadcast(s)
  \/ DeleteRoomLoad(s) \/ DeleteRoomCount(s) \/ DeleteRoomDelete(s) \/ DeleteRoomClose(s)
  \/ SendMessageLoad(s) \/ SendMessageUsers(s) \/ SendMessageBroadcast(s)

Server ==
  \/ \E s \in Sessions : Coordinator(s)
  \/ \E s \in Sessions : WriterDrain(s)
  \/ \E s \in Sessions : WriterStop(s)
  \/ \E i \in Insts : RoomRecv(i)
  \/ \E i \in Insts, u \in UserIds : RoomSend(i, u)

Next ==
  \/ \E s \in Sessions : Reader(s, Frames)
  \/ Server

Spec == Init /\ [][Next]_vars

NoFullChannel == \A c \in Sessions : Len(out[c]) < cap[c]

(***************************************************************************)
(* One session whose peer sends create_room and join frames with any       *)
(* combination of user id and user name, a create_room without room id or  *)
(* room name, leave and message frames.                                    *)
(***************************************************************************)
IdentityFrames ==
  [create |-> {Frame("create_room", r[1], r[2], u, n, 0) :
                 r \in {<<"r1", "n">>, <<"", "n">>, <<"r1", "">>},
                 u \in {""} \cup UserIds, n \in {"", "a", "b"}},
   join |-> {Frame("join", "r1", "", u, n, 0) :
                 u \in {""} \cup UserIds, n \in {"", "a", "b"}},
   leave |-> {Frame("leave", "r1", "", "", "", 0)},
   message |-> {Frame("message", "r1", "", "", "", 1)}]

InitSession ==
  /\ registry = [r \in RoomIds |-> 0]
  /\ nextInst = 0
  /\ roomInfo = [i \in Insts |-> NoRoom]
  /\ rstate = [i \in Insts |-> "none"]
  /\ users = [i \in Insts |-> EmptyMap]
  /\ clients = [i \in Insts |-> EmptyMap]
  /\ events = [i \in Insts |-> <<>>]
  /\ enq = [i \in Insts |-> 0]
  /\ proc = [i \in Insts |-> <<>>]
  /\ loop = [i \in Insts |-> IdleLoop]
  /\ InitChans(SendCap)
  /\ quota = [s \in Sessions |-> IF s = 1 THEN MaxFrames + 1 ELSE 0]

NextSession ==
  \/ \E s \in Sessions : Reader(s, IdentityFrames)
  \/ Server

SpecSession == InitSession /\ [][NextSession]_vars

(***************************************************************************)
(* Sessions whose peers only create rooms, under one room id and with      *)
(* different authors.                                                      *)
(***************************************************************************)
CreateFrames == {Frame("create_room", "r1", "n", u, "a", 0) : u \in UserIds}

NextCreate ==
  \/ \E s \in Sessions : \E p \in CreateFrames : handleCreateRoom(s, p)
  \/ \E s \in Sessions : CreateRoomLoad(s)
  \/ \E s \in Sessions : CreateRoomStore(s)
  \/ \E s \in Sessions : CreateRoomJoin(s)
  \/ \E s \in Sessions : CreateRoomSend(s)
  \/ \E s \in Sessions : sendError(s)
  \/ \E i \in Insts : RoomRecv(i)

SpecCreate == Init /\ [][NextCreate]_vars

(***************************************************************************)
(* A stand-alone room: NewRoom, go Run, and callers that submit any        *)
(* event through the Enqueue methods.                                      *)
(***************************************************************************)
InitRoom ==
  /\ registry = [r \in RoomIds |-> 0]
  /\ nextInst = 1
  /\ roomInfo = [i \in Insts |-> IF i = 1 THEN NewRoom("r1", "n", "u1") ELSE NoRoom]
  /\ rstate = [i \in Insts |-> IF i = 1 THEN "running" ELSE "none"]
  /\ users = [i \in Insts |-> EmptyMap]
  /\ clients = [i \in Insts |-> EmptyMap]
  /\ events = [i \in Insts |-> <<>>]
  /\ enq = [i \in Insts |-> 0]
  /\ proc = [i \in Insts |-> <<>>]
  /\ loop = [i \in Insts |-> IdleLoop]
  /\ InitChans(CallerCap)
  /\ quota = [s \in Sessions |-> 0]

CallerVars == <<registry, nextInst, roomInfo, rstate, users, clients, proc,
                loop, chanVars, sessVars, panicked, quota, wsServer, shut>>

CallEnqueueJoin(i, u, c) ==
  /\ ~panicked /\ nops < MaxOps
  /\ EnqueueJoin(i, RoomClient(u, User(u, u), c))
  /\ nops' = nops + 1
  /\ UNCHANGED CallerVars

CallEnqueueLeave(i, u) ==
  /\ ~panicked /\ nops < MaxOps
  /\ EnqueueLeave(i, u)
  /\ nops' = nops + 1
  /\ UNCHANGED CallerVars

CallEnqueueBroadcast(i) ==
  /\ ~panicked /\ nops < MaxOps
  /\ EnqueueBroadcast(i, NewRoomMessageEvent(roomInfo[i].ID, "u1", "u1", "m"))
  /\ nops' = nops + 1
  /\ UNCHANGED CallerVars

CallEnqueueClose(i) ==
  /\ ~panicked /\ nops < MaxOps
  /\ EnqueueClose(i)
  /\ nops' = nops + 1
  /\ UNCHANGED CallerVars

NextRoom ==
  \/ \E u \in UserIds, c \in Sessions : CallEnqueueJoin(1, u, c)
  \/ \E u \in UserIds : CallEnqueueLeave(1, u)
  \/ CallEnqueueBroadcast(1)
  \/ CallEnqueueClose(1)
  \/ RoomRecv(1)
  \/ \E u \in UserIds : RoomSend(1, u)
  \/ \E u \in UserIds : RoomSkip(1, u)
  \/ \E s \in Sessions : WriterRecv(s)
  \/ \E s \in Sessions : WriterStop(s)

SpecRoom == InitRoom /\ [][NextRoom]_vars

(***************************************************************************)
(* C1. In every reachable state of a room, the user ids that are keys of   *)
(* the member table (users) are exactly the user ids that are keys of the  *)
(* sink table (clients), whatever Join, Leave, Broadcast and Close events  *)
(* were submitted.                                                         *)
(***************************************************************************)
C1_MembersMatchSinks == \A i \in Insts : DOMAIN users[i] = DOMAIN clients[i]

\* a Leave of a non-member (the room was empty), then a Join and a second Join
\* of the same user have been applied, and the user is a member
C1_Witness ==
  /\ Len(proc[1]) >= 3
  /\ proc[1][1].kind = "leave"
  /\ proc[1][2].kind = "join"
  /\ proc[1][3].kind = "join"
  /\ proc[1][2].user = proc[1][3].user
  /\ proc[1][3].user \in DOMAIN users[1]

(***************************************************************************)
(* C2. Once a session is bound to a non-empty user id, no step changes its *)
(* user id or its user name; a create_room or join frame that asks to bind *)
(* the same user id gets past the identity check, and one that asks to     *)
(* bind another user id is answered with identity_error.                   *)
(***************************************************************************)
C2_IdentityBoundOnce ==
  [][\A s \in Sessions : sess[s].userID # "" =>
       /\ sess'[s].userID = sess[s].userID
       /\ sess'[s].userName = sess[s].userName
       /\ \A p \in IdentityFrames.create :
            handleCreateRoom(s, p) /\ (p.UserID # "" \/ p.UserName # "") =>
              IF p.UserID = sess[s].userID
              THEN sess'[s].pc = "cr_load"
              ELSE sess'[s].pc = "sendError" /\ sess'[s].code = "identity_error"
       /\ \A p \in IdentityFrames.join :
            handleJoinRoom(s, p) =>
              IF p.UserID \in {"", sess[s].userID}
              THEN sess'[s].pc = "jn_load"
              ELSE sess'[s].pc = "sendError" /\ sess'[s].code = "identity_error"]_vars

\* a create_room bound the session, a later frame with another user id was
\* answered with identity_error, and a join after that passed the check
C2_Witness ==
  \E k, l \in 1..Len(out[1]) :
    /\ k < l
    /\ out[1][k].type = "new_room"
    /\ out[1][k].user = sess[1].userID
    /\ out[1][l].text = "identity_error"
    /\ sess[1].pc = "jn_load"
    /\ quota[1] = 0

\* the positions of out[c] that room i placed for recipient u
PlacedAt(c, i, u) == {k \in 1..Len(out[c]) : out[c][k].src = i /\ out[c][k].rcpt = u}

(***************************************************************************)
(* C3. A room receives its events in the order they were submitted, and    *)
(* what it places on one recipient's send channel is a subsequence, in     *)
(* the same order, of the Broadcast events it has received: a dropped      *)
(* value never lets a later one overtake an earlier one.                   *)
(***************************************************************************)
C3_FifoPerRecipient ==
  /\ \A i \in Insts : \A k \in 1..Len(proc[i]) : proc[i][k].n = k
  /\ \A c \in Sessions, i \in Insts, u \in UserIds :
       /\ \A k \in PlacedAt(c, i, u) :
            /\ out[c][k].n \in 1..Len(proc[i])
            /\ proc[i][out[c][k].n].kind = "broadcast"
       /\ \A k, l \in PlacedAt(c, i, u) : k < l => out[c][k].n < out[c][l].n

\* a recipient got two broadcasts of the room and missed one in between
C3_Witness ==
  \E c \in Sessions, u \in UserIds : \E k, l \in PlacedAt(c, 1, u) :
    /\ k < l
    /\ \E m \in 1..Len(proc[1]) :
         /\ out[c][k].n < m /\ m < out[c][l].n
         /\ proc[1][m].kind = "broadcast"
         /\ \A j \in PlacedAt(c, 1, u) : out[c][j].n # m

\* the LeaveRoom call of s returns nil in this step
LeaveReturns(s) ==
  /\ sess[s].pc \in {"lv_gc", "lv_count", "lv_close"}
  /\ sess'[s].pc \in {"read", "cleanup"}

\* u is the only user that is or is about to be a member of room i
LastMember(i, u) ==
  /\ DOMAIN users[i] \subseteq {u}
  /\ \A k \in 1..Len(events[i]) : events[i][k].kind # "join"

(***************************************************************************)
(* C4. When LeaveRoom returns success to the last member of a room (the    *)
(* room has no other member and no Join is waiting in its event channel),  *)
(* the registry no longer holds the room and a Close has been submitted to *)
(* it.                                                                     *)
(***************************************************************************)
C4_LastLeaveRemovesRoom ==
  [][\A s \in Sessions :
       LeaveReturns(s) /\ LastMember(sess[s].room, sess[s].userID) =>
         /\ registry'[sess[s].roomID] # sess[s].room
         /\ \E k \in 1..Len(HistOf(proc'[sess[s].room], events'[sess[s].room])) :
              HistOf(proc'[sess[s].room], events'[sess[s].room])[k].kind = "close"]_vars

\* LeaveRoom(i, u) has returned nil and no Join of u was submitted since
LeftRoom(i, u) ==
  /\ \E k \in 1..Len(Hist(i)) :
       /\ Hist(i)[k].kind = "leave" /\ Hist(i)[k].user = u
       /\ \A j \in 1..Len(Hist(i)) : j > k => ~(Hist(i)[j].kind = "join" /\ Hist(i)[j].user = u)
  /\ \A t \in Sessions :
       ~(/\ sess[t].userID = u
         /\ sess[t].room = i
         /\ sess[t].pc \in {"lv_bcast", "lv_gc", "lv_count", "lv_delete", "lv_close"})

\* room i places a value on channel c for recipient u in this step
Placed(i, u, c) ==
  /\ Len(out'[c]) = Len(out[c]) + 1
  /\ out'[c][Len(out'[c])].src = i
  /\ out'[c][Len(out'[c])].rcpt = u

(***************************************************************************)
(* C5. A room places on a user's send channel no value of a broadcast that *)
(* was submitted after a Leave of that user, unless a Join of the user was *)
(* submitted in between.  (Values of broadcasts submitted before the Leave *)
(* can still be placed after LeaveRoom has returned.)                      *)
(***************************************************************************)
C5_NoBroadcastSubmittedAfterLeave ==
  \A c \in Sessions : \A k \in 1..Len(out[c]) :
    LET e == out[c][k] IN
      e.src # 0 =>
        \A l \in 1..Len(Hist(e.src)) :
          (l < e.n /\ Hist(e.src)[l].kind = "leave" /\ Hist(e.src)[l].user = e.rcpt) =>
            \E j \in 1..Len(Hist(e.src)) :
              l < j /\ j < e.n /\ Hist(e.src)[j].kind = "join" /\ Hist(e.src)[j].user = e.rcpt

\* u's LeaveRoom returned, the room applied the Leave and then delivered a
\* later broadcast to another member, and nothing of it to u
C5_Witness ==
  \E i \in Insts, u \in UserIds :
    /\ LeftRoom(i, u)
    /\ \E l \in 1..Len(proc[i]) :
         /\ proc[i][l].kind = "leave" /\ proc[i][l].user = u
         /\ \E c \in Sessions : \E k \in 1..Len(out[c]) :
              /\ out[c][k].src = i /\ out[c][k].n > l /\ out[c][k].rcpt # u
              /\ loop[i].pc = "idle"
              /\ \A d \in Sessions : \A m \in 1..Len(out[d]) :
                   ~(out[d][m].src = i /\ out[d][m].n = out[c][k].n /\ out[d][m].rcpt = u)

\* C5 as stated: once LeaveRoom(i, u) has returned nil, room i places nothing
\* on a send channel for u unless u joins again
C5_NothingAfterLeaveRoom ==
  [][\A i \in Insts, u \in UserIds, c \in Sessions : LeftRoom(i, u) => ~Placed(i, u, c)]_vars

(***************************************************************************)
(* C6. Between two Leave events of one user submitted to a room there is a *)
(* Join of that user: leaving twice with no join in between submits one    *)
(* Leave only (the second LeaveRoom fails).                                *)
(***************************************************************************)
C6_OneLeavePerMembership ==
  \A i \in Insts, u \in UserIds : \A k, l \in 1..Len(Hist(i)) :
    (/\ k < l
     /\ Hist(i)[k].kind = "leave" /\ Hist(i)[k].user = u
     /\ Hist(i)[l].kind = "leave" /\ Hist(i)[l].user = u) =>
      \E j \in 1..Len(Hist(i)) :
        k < j /\ j < l /\ Hist(i)[j].kind = "join" /\ Hist(i)[j].user = u

(***************************************************************************)
(* C7. When CreateRoom is called with an empty room id, an empty room      *)
(* name, or a room id the registry holds, it returns an error and changes  *)
(* nothing: not the registry, not a room (none is made, none is started,   *)
(* no event is submitted), not a send channel.                             *)
(***************************************************************************)
C7_CreateRoomRejects ==
  [][\A s \in Sessions :
       (/\ sess[s].pc = "cr_load"
        /\ sess'[s] # sess[s]
        /\ \/ sess[s].roomID = ""
           \/ sess[s].roomName = ""
           \/ Load(sess[s].roomID) # 0) =>
         /\ sess'[s].pc = "sendError"
         /\ sess'[s].code = "create_room_error"
         /\ UNCHANGED <<registry, nextInst, roomVars, chanVars>>]_vars

\* CreateRoom has just refused a room id that the registry holds
C7_Witness ==
  /\ sess[1].pc = "sendError"
  /\ sess[1].code = "create_room_error"
  /\ sess[1].roomID # "" /\ sess[1].roomName # ""
  /\ Load(sess[1].roomID) # 0
  /\ Len(out[1]) = 1 /\ out[1][1].type = "new_room"

(***************************************************************************)
(* C8. When CreateRoom returns nil, the registry holds under the room id a *)
(* room with that id, name and author, the call has written one new_room   *)
(* value with them to the send channel, and a Join of the author has been  *)
(* submitted to the room the registry holds.                               *)
(***************************************************************************)
C8_CreateRoomLeavesRoom ==
  [][\A s \in Sessions :
       (sess[s].pc = "cr_send" /\ sess'[s].pc = "read") =>
         LET i == registry'[sess[s].roomID] IN
           /\ i # 0
           /\ roomInfo'[i] = NewRoom(sess[s].roomID, sess[s].roomName, sess[s].userID)
           /\ out'[s] = Append(out[s], NewRoomEvent(sess[s].roomID, sess[s].userID, sess[s].roomName))
           /\ \E k \in 1..Len(HistOf(proc'[i], events'[i])) :
                /\ HistOf(proc'[i], events'[i])[k].kind = "join"
                /\ HistOf(proc'[i], events'[i])[k].user = sess[s].userID]_vars

(***************************************************************************)
(* C9. On the send channel of the session that created a room, every value *)
(* the room places for the author comes after the new_room value of that   *)
(* room.                                                                   *)
(***************************************************************************)
C9_NewRoomBeforeBroadcasts ==
  \A c \in Sessions : \A k \in 1..Len(out[c]) :
    LET e == out[c][k] IN
      (/\ e.src # 0
       /\ e.rcpt = roomInfo[e.src].AuthorID
       /\ sess[c].userID = roomInfo[e.src].AuthorID) =>
        \E j \in 1..(k - 1) :
          /\ out[c][j].type = "new_room"
          /\ out[c][j].room = roomInfo[e.src].ID
          /\ out[c][j].user = e.rcpt

(***************************************************************************)
(* C10. When JoinRoom finds the user id in the member table of the room    *)
(* (an earlier Join of the user has been applied by the room's loop and no *)
(* Leave since), it returns the already-member error and submits no event  *)
(* to the room.                                                            *)
(***************************************************************************)
C10_MemberCannotJoin ==
  [][\A s \in Sessions :
       (/\ sess[s].pc = "jn_users"
        /\ sess'[s] # sess[s]
        /\ sess[s].userID \in DOMAIN users[sess[s].room]) =>
         /\ sess'[s].pc = "sendError"
         /\ sess'[s].code = "join_room_error"
         /\ UNCHANGED <<events, enq>>]_vars

\* a session whose JoinRoom succeeded before (its user_joined was submitted)
\* has just been refused as a member of the room
C10_Witness ==
  \E s \in Sessions :
    /\ sess[s].pc = "sendError"
    /\ sess[s].code = "join_room_error"
    /\ sess[s].room # 0
    /\ Load(sess[s].roomID) = sess[s].room
    /\ sess[s].userID \in DOMAIN users[sess[s].room]
    /\ \E k \in 1..Len(Hist(sess[s].room)) :
         /\ Hist(sess[s].room)[k].what = "user_joined"
         /\ Hist(sess[s].room)[k].who = sess[s].userID
    /\ \A k \in 1..Len(Hist(sess[s].room)) : Hist(sess[s].room)[k].kind # "leave"

\* C10 as stated: after a user_joined of a user was submitted to a room
\* (JoinRoom returned nil), no Join of that user is submitted to the room
\* before a Leave of the user
C10_NoSecondJoin ==
  \A i \in Insts, u \in UserIds : \A k, l \in 1..Len(Hist(i)) :
    (/\ k < l
     /\ Hist(i)[k].what = "user_joined" /\ Hist(i)[k].who = u
     /\ Hist(i)[l].kind = "join" /\ Hist(i)[l].user = u) =>
      \E j \in 1..Len(Hist(i)) :
        k < j /\ j < l /\ Hist(i)[j].kind = "leave" /\ Hist(i)[j].user = u

(***************************************************************************)
(* C11. When JoinRoom is called with a room id the registry does not hold, *)
(* or with an empty user id or user name, it returns an error and changes  *)
(* nothing: no event is submitted to any room, no member table changes.    *)
(***************************************************************************)
C11_JoinRoomRejects ==
  [][\A s \in Sessions :
       (/\ sess[s].pc = "jn_load"
        /\ sess'[s] # sess[s]
        /\ \/ Load(sess[s].roomID) = 0
           \/ sess[s].userID = ""
           \/ sess[s].userName = "") =>
         /\ sess'[s].pc = "sendError"
         /\ sess'[s].code = "join_room_error"
         /\ UNCHANGED <<registry, nextInst, roomVars, chanVars>>]_vars

\* JoinRoom has just refused a user without a name in a room that exists
C11_Witness ==
  /\ sess[1].pc = "sendError"
  /\ sess[1].code = "join_room_error"
  /\ Load(sess[1].roomID) # 0
  /\ sess[1].userID # ""
  /\ sess[1].userName = ""

\* the users for whom room i placed the value of its m-th event on a channel
Delivered(i, m) ==
  {u \in UserIds : \E c \in Sessions : \E k \in 1..Len(out[c]) :
     out[c][k].src = i /\ out[c][k].n = m /\ out[c][k].rcpt = u}

\* the values room i placed for its m-th event
Values(i, m) ==
  {e \in UNION {{out[c][k] : k \in 1..Len(out[c])} : c \in Sessions} :
     e.src = i /\ e.n = m}

\* the recipients handleBroadcast of room i has still to serve
Pending(i) == IF loop[i].pc = "fanout" THEN DOMAIN loop[i].pending ELSE {}

\* the event room i received last is a broadcast of a value of type what
LastIs(i, what) ==
  /\ ~panicked
  /\ Len(proc[i]) > 0
  /\ proc[i][Len(proc[i])].kind = "broadcast"
  /\ proc[i][Len(proc[i])].what = what

SameUserFrames ==
  [create |-> {Frame("create_room", "r1", "n", "u1", "a", 0)},
   join |-> {Frame("join", "r1", "", "", "", 0)},
   leave |-> {Frame("leave", "r1", "", "", "", 0)},
   message |-> {Frame("message", "r1", "", "", "", 1)}]

NextSameUser ==
  \/ \E s \in Sessions : Reader(s, SameUserFrames)
  \/ Server

SpecSameUser == Init /\ [][NextSameUser]_vars

(***************************************************************************)
(* C13. LeaveRoom submits the Leave of the user before the user_left, so   *)
(* the user_left goes to the members that remain and no user_left is ever  *)
(* placed on the send channel of the user it is about.                     *)
(***************************************************************************)
C13_NoOwnUserLeft ==
  \A c \in Sessions : \A k \in 1..Len(out[c]) :
    out[c][k].type = "user_left" => out[c][k].rcpt # out[c][k].user

\* the call of LeaveRoom by session s is at a check that fails: the registry
\* holds no room under the id, or the member table it reads lacks the user
LeaveRoomFails(s) ==
  \/ sess[s].pc = "lv_load" /\ Load(sess[s].roomID) = 0
  \/ sess[s].pc = "lv_users" /\ sess[s].userID \notin DOMAIN users[sess[s].room]

(***************************************************************************)
(* C14. When LeaveRoom finds no room under the id in the registry, or does *)
(* not find the user in the member table of the room, it returns an error  *)
(* (the handler reports leave_room_error, cleanup goes on) and the step    *)
(* submits no event to any room and leaves the registry as it is.          *)
(***************************************************************************)
C14_LeaveRoomRejects ==
  [][\A s \in Sessions :
       (LeaveRoomFails(s) /\ sess'[s] # sess[s]) =>
         /\ sess'[s] = LeaveFailed(sess[s])
         /\ sess'[s].pc \in {"sendError", "cleanup"}
         /\ UNCHANGED <<registry, nextInst, roomVars, chanVars>>]_vars

\* LeaveRoom returned an error for a user the member table did not hold
C14_Witness ==
  \E s \in Sessions :
    /\ sess[s].pc = "sendError" /\ sess[s].code = "leave_room_error"
    /\ sess[s].roomID \in sess[s].rooms
    /\ Load(sess[s].roomID) # 0
    /\ sess[s].userID \notin DOMAIN users[Load(sess[s].roomID)]

(***************************************************************************)
(* Callers of Coordinator.SendMessage.  A session calls it for room r1     *)
(* with the user id it is bound to (none, if it is unbound) and content of *)
(* 0, 1, 10240 or 10241 bytes, whether or not the session has the room in  *)
(* c.rooms; an error is reported as handleChatMessage reports it.          *)
(***************************************************************************)
ContentLens == {0, 1, MaxContent, MaxContent + 1}

CallSendMessage(s, r, n) ==
  /\ CanRead(s)
  /\ sess' = [sess EXCEPT ![s] = [@ EXCEPT !.roomID = r, !.content = n, !.pc = "sm_load"]]
  /\ FrameRead(s)

NextSend ==
  \/ \E s \in Sessions : \E p \in Frames.create : handleCreateRoom(s, p)
  \/ \E s \in Sessions : \E p \in Frames.join : handleJoinRoom(s, p)
  \/ \E s \in Sessions : \E p \in Frames.leave : handleLeaveRoom(s, p)
  \/ \E s \in Sessions : \E n \in ContentLens : CallSendMessage(s, "r1", n)
  \/ \E s \in Sessions : sendError(s)
  \/ \E s \in Sessions : ReaderExit(s)
  \/ \E s \in Sessions : CleanupNext(s)
  \/ Server

SpecSend == Init /\ [][NextSend]_vars

\* the call of SendMessage by session s is at a check that fails
SendMessageFails(s) ==
  \/ /\ sess[s].pc = "sm_load"
     /\ \/ sess[s].content = 0
        \/ sess[s].content > MaxContent
        \/ Load(sess[s].roomID) = 0
  \/ sess[s].pc = "sm_users" /\ sess[s].userID \notin DOMAIN users[sess[s].room]

(***************************************************************************)
(* C15. SendMessage returns an error and submits no broadcast (no room's   *)
(* event channel, member table or sink changes) when the content is empty, *)
(* when it is longer than 10240 bytes, when the registry holds no room     *)
(* under the id, or when the member table of the room lacks the user id;   *)
(* content of exactly 10240 bytes passes the check of the content.         *)
(***************************************************************************)
C15_SendMessageRejects ==
  [][\A s \in Sessions :
       /\ (SendMessageFails(s) /\ sess'[s] # sess[s]) =>
            /\ sess'[s].pc = "sendError"
            /\ sess'[s].code = "message_error"
            /\ UNCHANGED <<registry, nextInst, roomVars, chanVars>>
       /\ (/\ sess[s].pc = "sm_load" /\ sess'[s] # sess[s]
           /\ sess[s].content = MaxContent
           /\ Load(sess[s].roomID) # 0) => sess'[s].pc = "sm_users"]_vars

\* a message of 10241 bytes of a member was rejected, and one of 10240 bytes
\* was placed on a send channel
C15_Witness ==
  /\ \E s \in Sessions :
       /\ sess[s].pc = "sendError" /\ sess[s].code = "message_error"
       /\ sess[s].content = MaxContent + 1
       /\ Load(sess[s].roomID) # 0
       /\ sess[s].userID \in DOMAIN users[Load(sess[s].roomID)]
  /\ \E c \in Sessions : \E k \in 1..Len(out[c]) :
       out[c][k].type = "new_message" /\ out[c][k].text = MaxContent

\* how many values room i placed for its m-th event with recipient u
Copies(i, m, u) ==
  Cardinality({ck \in Sessions \X (1..SendCap) :
                 /\ ck[2] <= Len(out[ck[1]])
                 /\ out[ck[1]][ck[2]].src = i
                 /\ out[ck[1]][ck[2]].n = m
                 /\ out[ck[1]][ck[2]].rcpt = u})

(***************************************************************************)
(* C16. Every new_message broadcast submitted to a room carries the id of  *)
(* the sender and the name under which a Join put the sender in the member *)
(* table.  When the room has received it, the value, with the room id, the *)
(* sender's id, that name and the content, goes once to every member of    *)
(* the room, the sender included if the sender is a member.                *)
(***************************************************************************)
C16_MessageToEveryMember ==
  \A i \in Insts :
    /\ \A m \in 1..Len(Hist(i)) :
         Hist(i)[m].what = "new_message" =>
           \E j \in 1..(m - 1) :
             /\ Hist(i)[j].kind = "join"
             /\ Hist(i)[j].user = Hist(i)[m].who
             /\ Hist(i)[j].name = Hist(i)[m].name
    /\ LastIs(i, "new_message") =>
         LET m == Len(proc[i])
             u == proc[i][m].who
         IN /\ DOMAIN clients[i] = Pending(i) \cup Delivered(i, m)
            /\ Pending(i) \cap Delivered(i, m) = {}
            /\ u \in DOMAIN users[i] => u \in Pending(i) \cup Delivered(i, m)
            /\ \A r \in Delivered(i, m) : Copies(i, m, r) = 1
            /\ \A e \in Values(i, m) :
                 /\ e.type = "new_message"
                 /\ e.room = roomInfo[i].ID
                 /\ e.user = u
                 /\ e.name = proc[i][m].name
                 /\ e.text > 0

\* a message of the author, under the name the room recorded for the author,
\* went to the author and to the other member
C16_Witness ==
  \E i \in Insts :
    /\ LastIs(i, "new_message")
    /\ loop[i].pc = "idle"
    /\ Delivered(i, Len(proc[i])) = {"u1", "u2"}
    /\ proc[i][Len(proc[i])].who = "u1"
    /\ proc[i][Len(proc[i])].name = "u1"

(***************************************************************************)
(* The room with a loop that keeps running: Run receives the next event    *)
(* whenever one is in the channel, and the select of handleBroadcast ends, *)
(* by the send or by time.After.  Nothing is assumed of the writer pumps:  *)
(* a full channel may stay full.                                           *)
(***************************************************************************)
SpecRoomLive ==
  /\ SpecRoom
  /\ WF_vars(RoomRecv(1))
  /\ WF_vars(\E u \in UserIds : RoomSend(1, u) \/ RoomSkip(1, u))

\* the step drops the value handleBroadcast is sending for recipient u
Skips(i, u) ==
  /\ loop[i].pc = "fanout"
  /\ u \in DOMAIN loop[i].pending
  /\ loop'[i] # loop[i]
  /\ out' = out
  /\ panicked' = panicked

(***************************************************************************)
(* C17. A recipient whose send channel is full does not hold up the room:  *)
(* the value is dropped for a recipient only when that recipient's channel *)
(* is full, the drop leaves the other recipients of the snapshot to be     *)
(* served and the recipient a member; every fan-out ends, and every event  *)
(* in the channel is received, even if no writer pump ever takes a value.  *)
(***************************************************************************)
C17_FanoutNeverBlocks ==
  /\ [][\A u \in UserIds :
          Skips(1, u) /\ u \notin Pending(1)' =>
            /\ Full(loop[1].pending[u])
            /\ Pending(1)' = Pending(1) \ {u}
            /\ UNCHANGED <<users, clients, events, closed>>]_vars
  /\ (loop[1].pc = "fanout") ~> (loop[1].pc = "idle" \/ panicked)
  /\ (events[1] # <<>>) ~> (events[1] = <<>> \/ rstate[1] = "done" \/ panicked)

\* a broadcast went to one member and was dropped for the other, who had
\* joined before and is still a member, and the room received a later event
C17_Witness ==
  /\ ~panicked
  /\ \E m \in 1..(Len(proc[1]) - 1) :
       /\ proc[1][m].kind = "broadcast"
       /\ \E u \in UserIds, v \in UserIds :
            /\ u # v
            /\ Delivered(1, m) = {u}
            /\ v \in DOMAIN clients[1]
            /\ \E j \in 1..(m - 1) : proc[1][j].kind = "join" /\ proc[1][j].user = v
            /\ \A l \in 1..Len(proc[1]) : proc[1][l].kind \in {"join", "broadcast"}

(***************************************************************************)
(* The room with writer pumps that keep running: a pump receives a value   *)
(* that is in its channel, and returns once the channel is closed and      *)
(* drained.                                                                *)
(***************************************************************************)
SpecRoomWriter ==
  /\ SpecRoom
  /\ \A s \in Sessions : WF_vars(WriterRecv(s)) /\ WF_vars(WriterStop(s))

\* the step is Run's receive of a Leave in room i
LeaveApplied(i) ==
  /\ Len(proc'[i]) = Len(proc[i]) + 1
  /\ proc'[i][Len(proc'[i])].kind = "leave"

(***************************************************************************)
(* C18. When Run receives Leave(U) and U is a member, the step removes U,  *)
(* and only U, from the member table and from the sinks, and U's send      *)
(* channel is closed after it; when U is not a member, the step changes no *)
(* table and closes no channel.  The writer pump of a closed channel       *)
(* returns.                                                                *)
(***************************************************************************)
C18_LeaveClosesSink ==
  /\ [][LeaveApplied(1) =>
          LET u == proc'[1][Len(proc'[1])].user IN
            IF u \in DOMAIN clients[1]
            THEN /\ users'[1] = MapDel(users[1], u)
                 /\ clients'[1] = MapDel(clients[1], u)
                 /\ closed'[clients[1][u]]
                 /\ \A c \in Sessions : closed'[c] # closed[c] => c = clients[1][u]
            ELSE UNCHANGED <<users, clients, closed, out, panicked>>]_vars
  /\ \A c \in Sessions : closed[c] ~> (writer[c] = "done" \/ panicked)

\* a member left, the channel is closed and its writer pump has returned
C18_Witness ==
  /\ ~panicked
  /\ Len(proc[1]) >= 2
  /\ proc[1][Len(proc[1])].kind = "leave"
  /\ \E j \in 1..(Len(proc[1]) - 1) :
       /\ proc[1][j].kind = "join"
       /\ proc[1][j].user = proc[1][Len(proc[1])].user
       /\ \A l \in (j + 1)..(Len(proc[1]) - 1) : proc[1][l].kind = "broadcast"
  /\ \E c \in Sessions : closed[c] /\ writer[c] = "done"

\* the step is Run's receive of a Close in room i
CloseApplied(i) ==
  /\ Len(proc'[i]) = Len(proc[i]) + 1
  /\ proc'[i][Len(proc'[i])].kind = "close"

(***************************************************************************)
(* C19. When Run receives Close, the member table and the sinks are        *)
(* emptied, the loop returns, and every send channel that was still in the *)
(* sinks is closed.                                                        *)
(***************************************************************************)
C19_CloseClosesSinks ==
  [][CloseApplied(1) =>
       /\ users'[1] = EmptyMap
       /\ clients'[1] = EmptyMap
       /\ rstate'[1] = "done"
       /\ \A u \in DOMAIN clients[1] : closed'[clients[1][u]]]_vars

(***************************************************************************)
(* Teardown.  One session whose peer creates rooms r1 and r2 as u1, sends  *)
(* join, leave and message frames for r1, and may close the connection at  *)
(* any time; conn.ReadMessage then fails and readPump's deferred cleanup   *)
(* runs.                                                                   *)
(***************************************************************************)
TeardownRoomIds == {"r1", "r2"}

TeardownFrames ==
  [create |-> {Frame("create_room", r, "n", "u1", "a", 0) : r \in TeardownRoomIds},
   join |-> {Frame("join", "r1", "", "u1", "a", 0)},
   leave |-> {Frame("leave", "r1", "", "", "", 0)},
   message |-> {Frame("message", "r1", "", "", "", 1)}]

\* the peer closes the connection
PeerClose(s) ==
  /\ ~panicked
  /\ conn[s] = "open"
  /\ conn' = [conn EXCEPT ![s] = "closed"]
  /\ UNCHANGED <<registry, nextInst, roomVars, chanVars, sess, writer,
                 cancelled, panicked, quota, nops, wsServer, shut>>

InitTeardown ==
  /\ registry = [r \in TeardownRoomIds |-> 0]
  /\ nextInst = 0
  /\ roomInfo = [i \in Insts |-> NoRoom]
  /\ rstate = [i \in Insts |-> "none"]
  /\ users = [i \in Insts |-> EmptyMap]
  /\ clients = [i \in Insts |-> EmptyMap]
  /\ events = [i \in Insts |-> <<>>]
  /\ enq = [i \in Insts |-> 0]
  /\ proc = [i \in Insts |-> <<>>]
  /\ loop = [i \in Insts |-> IdleLoop]
  /\ InitChans(SendCap)
  /\ quota = [s \in Sessions |-> IF s = 1 THEN MaxFrames + 1 ELSE 0]

NextTeardown ==
  \/ \E s \in Sessions : Reader(s, TeardownFrames)
  \/ \E s \in Sessions : PeerClose(s)
  \/ Server

SpecTeardown == InitTeardown /\ [][NextTeardown]_vars

\* session s has left readPump and cleanup, and no room has anything left to
\* do: nothing can change a member table any more
TornDown(s) ==
  /\ sess[s].pc = "exited"
  /\ \A t \in Sessions \ {s} : sess[t].pc = "read" /\ quota[t] = 0
  /\ \A i \in Insts : rstate[i] = "running" => events[i] = <<>> /\ loop[i].pc = "idle"

(***************************************************************************)
(* C20. A session can be in several rooms; after its teardown (the reader  *)
(* has exited, cleanup has called LeaveRoom for every room of c.rooms and  *)
(* the rooms have handled all their events) the user is a member of none   *)
(* of the rooms the session had joined.                                    *)
(***************************************************************************)
C20_TeardownLeavesAll ==
  \A s \in Sessions :
    (TornDown(s) /\ sess[s].userID # "") =>
      \A i \in Insts :
        rstate[i] = "running" /\ roomInfo[i].ID \in sess[s].rooms =>
          sess[s].userID \notin DOMAIN users[i]

(***************************************************************************)
(* readMessage: frames that do not reach dispatchMessage.  A frame has a   *)
(* length n in bytes and is well-formed JSON of the envelope shape or not. *)
(* setupReadTimeouts sets the connection's read limit to maxMessageSize:   *)
(* conn.ReadMessage returns an error (ErrReadLimit) for a frame longer     *)
(* than the limit and the frame's bytes never reach readMessage's own      *)
(* checks.                                                                 *)
(***************************************************************************)
ReadLimit == maxMessageSize

FrameLens == {1, maxMessageSize, maxMessageSize + 1}

\* readMessage returns an error for a frame of n bytes
readMessageFails(s, n, wellFormed) ==
  /\ CanRead(s)
  /\ n > ReadLimit \/ n > maxMessageSize \/ ~wellFormed
  /\ sess' = [sess EXCEPT ![s] =
       IF n > ReadLimit THEN [@ EXCEPT !.frame = n, !.pc = "rm_exit"]
       ELSE IF n > maxMessageSize
            THEN [@ EXCEPT !.frame = n, !.pc = "rm_error", !.code = "message_too_large"]
            ELSE [@ EXCEPT !.frame = n, !.pc = "rm_error", !.code = "malformed_json"]]
  /\ FrameRead(s)

\* readMessage: c.sendError(code, ...) and the return of the error
readMessageError(s) ==
  /\ ~panicked
  /\ sess[s].pc = "rm_error"
  /\ ChanSend(s, ErrorPayload(sess[s].code))
  /\ sess' = [sess EXCEPT ![s] = [@ EXCEPT !.pc = "rm_exit"]]
  /\ UNCHANGED <<registry, nextInst, roomVars, rd, closed, cap, writer, conn,
                 cancelled, quota, nops, wsServer, shut>>

NextFrames ==
  \/ \E s \in Sessions : Reader(s, IdentityFrames)
  \/ \E s \in Sessions : \E n \in FrameLens, wf \in BOOLEAN : readMessageFails(s, n, wf)
  \/ \E s \in Sessions : readMessageError(s)
  \/ Server

SpecFrames == InitSession /\ [][NextFrames]_vars

(***************************************************************************)
(* C21. After a frame that cannot be parsed as an envelope the reader      *)
(* reports malformed_json and goes on reading: the session is not torn     *)
(* down (its cancel function is not called, cleanup does not run).         *)
(***************************************************************************)
C21_MalformedContinues ==
  \A s \in Sessions :
    sess[s].code = "malformed_json" =>
      /\ ~cancelled[s]
      /\ sess[s].pc \in {"rm_error", "read"}

(***************************************************************************)
(* C22. A session that has ended its read loop on a frame longer than      *)
(* 10240 bytes has placed an error value with code message_too_large on    *)
(* its send channel.                                                       *)
(***************************************************************************)
C22_TooLargeReported ==
  \A s \in Sessions :
    (sess[s].frame > maxMessageSize /\ cancelled[s]) =>
      \E k \in 1..Len(out[s]) : out[s][k] = ErrorPayload("message_too_large")

(***************************************************************************)
(* C23. A create_room frame on a session without identity and without      *)
(* user id in the payload is refused with identity_error, and c.rooms does *)
(* not change.  When the session has an identity, bound before (the        *)
(* payload names the same user id or none) or by this frame, CreateRoom is *)
(* called with the bound user id; an error of CreateRoom is reported as    *)
(* create_room_error.                                                      *)
(***************************************************************************)
C23_CreateRoomIdentity ==
  [][\A s \in Sessions :
       /\ \A p \in IdentityFrames.create :
            handleCreateRoom(s, p) =>
              /\ (sess[s].userID = "" /\ p.UserID = "") =>
                   /\ sess'[s].pc = "sendError"
                   /\ sess'[s].code = "identity_error"
                   /\ sess'[s].rooms = sess[s].rooms
              /\ \/ sess[s].userID = "" /\ p.UserID # ""
                 \/ sess[s].userID # "" /\ p.UserID \in {"", sess[s].userID}
                 => /\ sess'[s].pc = "cr_load"
                    /\ sess'[s].userID = IF sess[s].userID # "" THEN sess[s].userID
                                         ELSE p.UserID
       /\ (sess[s].pc = "cr_load" /\ sess'[s].pc = "sendError") =>
            sess'[s].code = "create_room_error"]_vars

\* the join_success values on the send channel of session s
JoinSuccesses(q) == SelectSeq(q, LAMBDA e : e.type = "join_success")

\* session s is inside handleJoinRoom or handleLeaveRoom
InJoin(s) == sess[s].pc \in {"jn_load", "jn_users", "jn_join", "jn_bcast", "jn_ok"}

InLeave(s) ==
  /\ sess[s].mode = "cmd"
  /\ sess[s].pc \in {"lv_load", "lv_users", "lv_leave", "lv_bcast", "lv_gc",
                     "lv_count", "lv_delete", "lv_close"}

(***************************************************************************)
(* C24. During a join or leave command c.rooms changes only when the       *)
(* Coordinator call has returned nil: JoinRoom's return adds the room id   *)
(* and is followed by one join_success with the room id and the user id,   *)
(* LeaveRoom's return removes the room id.  A call that returns an error   *)
(* leaves c.rooms as it was and is reported as join_room_error or          *)
(* leave_room_error, and no join_success is written anywhere else.         *)
(***************************************************************************)
C24_RoomsFollowCoordinator ==
  [][\A s \in Sessions :
       /\ (sess[s].pc = "read" /\ sess'[s].pc \in {"jn_load", "lv_load"}) =>
            sess'[s].rooms = sess[s].rooms
       /\ (InJoin(s) /\ sess'[s].rooms # sess[s].rooms) =>
            /\ sess[s].pc = "jn_bcast" /\ sess'[s].pc = "jn_ok"
            /\ sess'[s].rooms = sess[s].rooms \cup {sess[s].roomID}
       /\ (sess[s].pc = "jn_ok" /\ sess'[s] # sess[s]) =>
            /\ \/ out'[s] = Append(out[s], NewJoinSuccess(sess[s].roomID, sess[s].userID))
               \/ closed[s] /\ panicked'
            /\ sess[s].roomID \in sess[s].rooms
            /\ sess'[s].pc = "read"
       /\ JoinSuccesses(out'[s]) # JoinSuccesses(out[s]) => sess[s].pc = "jn_ok"
       /\ (InJoin(s) /\ sess'[s].pc = "sendError") =>
            /\ sess'[s].code = "join_room_error"
            /\ sess'[s].rooms = sess[s].rooms
       /\ (InLeave(s) /\ sess'[s].rooms # sess[s].rooms) =>
            /\ sess'[s].pc = "read"
            /\ sess[s].pc \in {"lv_gc", "lv_count", "lv_close"}
            /\ sess'[s].rooms = sess[s].rooms \ {sess[s].roomID}
       /\ (InLeave(s) /\ sess'[s].pc = "read") =>
            sess'[s].rooms = sess[s].rooms \ {sess[s].roomID}
       /\ (InLeave(s) /\ sess'[s].pc = "sendError") =>
            /\ sess'[s].code = "leave_room_error"
            /\ sess'[s].rooms = sess[s].rooms
       /\ (sess[s].pc = "sendError" /\ sess'[s] # sess[s]) =>
            /\ \/ out'[s] = Append(out[s], ErrorPayload(sess[s].code))
               \/ closed[s] /\ panicked'
            /\ sess'[s].rooms = sess[s].rooms]_vars

\* a session joined a room, holds its join_success, and a second join of the
\* room was rejected
C24_Witness ==
  \E s \in Sessions :
    /\ Len(JoinSuccesses(out[s])) = 1
    /\ "r1" \in sess[s].rooms
    /\ sess[s].pc = "sendError"
    /\ sess[s].code = "join_room_error"

(***************************************************************************)
(* One session whose peer creates and joins room r1 and sends leave and    *)
(* message frames for r1, for a room the session never joined (r2) and     *)
(* without room id.                                                        *)
(***************************************************************************)
GuardFrames ==
  [create |-> {Frame("create_room", "r1", "n", "u1", "a", 0)},
   join |-> {Frame("join", "r1", "", "u1", "a", 0)},
   leave |-> {Frame("leave", r, "", "", "", 0) : r \in {"", "r1", "r2"}},
   message |-> {Frame("message", r, "", "", "", 1) : r \in {"", "r1", "r2"}}]

NextGuards ==
  \/ \E s \in Sessions : Reader(s, GuardFrames)
  \/ Server

SpecGuards == InitSession /\ [][NextGuards]_vars

IsJoinSuccess(c, k, r) ==
  /\ out[c][k].type = "join_success"
  /\ out[c][k].room = r
  /\ out[c][k].user = sess[c].userID

(***************************************************************************)
(* C26. On the send channel of a session that joined a room (it is bound   *)
(* to a user who is not the room's author), every new_message of that room *)
(* which is from the session's own user and placed for that user comes     *)
(* after the join_success of the room.                                     *)
(***************************************************************************)
C26_JoinSuccessBeforeOwnMessage ==
  \A c \in Sessions : \A k \in 1..Len(out[c]) :
    LET e == out[c][k] IN
      (/\ e.type = "new_message"
       /\ e.src # 0
       /\ e.user = sess[c].userID
       /\ e.rcpt = e.user
       /\ e.user # roomInfo[e.src].AuthorID) =>
        \E j \in 1..(k - 1) : IsJoinSuccess(c, j, e.room)

\* the joiner holds its join_success and, after it, its own message
C26_Witness ==
  \E c \in Sessions : \E k \in 1..Len(out[c]) : \E j \in 1..(k - 1) :
    /\ out[c][k].type = "new_message"
    /\ out[c][k].user = sess[c].userID
    /\ out[c][k].rcpt = sess[c].userID
    /\ sess[c].userID = "u2"
    /\ IsJoinSuccess(c, j, out[c][k].room)

(***************************************************************************)
(* C27. On the send channel of a session that joined a room, the           *)
(* user_joined value that announces the session's own user comes after the *)
(* join_success of that room, whatever the interleaving of the reader and  *)
(* the room's loop.                                                        *)
(***************************************************************************)
C27_JoinSuccessBeforeOwnUserJoined ==
  \A c \in Sessions : \A k \in 1..Len(out[c]) :
    LET e == out[c][k] IN
      (/\ e.type = "user_joined"
       /\ e.src # 0
       /\ e.user = sess[c].userID
       /\ e.rcpt = e.user) =>
        \E j \in 1..(k - 1) : IsJoinSuccess(c, j, e.room)

(***************************************************************************)
(* Shutdown.  main's goroutine waits for a signal, then calls              *)
(* WsServer.Shutdown and Coordinator.Shutdown with one context whose       *)
(* deadline can pass at any moment.  ServeHTTP never puts the Client it    *)
(* makes into s.clients; after readPump returns it sends the Client on     *)
(* clientDone, where watchClients receives it until the server's context   *)
(* is cancelled.  Coordinator.Shutdown ranges over the registry's map      *)
(* without taking the registry's lock, so the range is not one step: a     *)
(* Store or Delete can run between two of its reads, and a range the       *)
(* run-time catches at it ends the process with a fatal error.             *)
(***************************************************************************)
\* ServeHTTP: readPump has returned; s.clientDone <- client
ServeHTTPReturn(s) ==
  /\ ~panicked
  /\ sess[s].pc = "exited"
  /\ Len(wsServer.clientDone) < ClientDoneCap
  /\ wsServer' = [wsServer EXCEPT !.clientDone = Append(@, s)]
  /\ sess' = [sess EXCEPT ![s] = [@ EXCEPT !.pc = "ended"]]
  /\ UNCHANGED <<registry, nextInst, roomVars, chanVars, writer, conn,
                 cancelled, panicked, quota, nops, shut>>

\* watchClients: a Client arrives on clientDone and is deleted from
\* s.clients, or the server's context is done and the goroutine returns
watchClients ==
  /\ ~panicked
  /\ wsServer.watch = "run"
  /\ \/ /\ wsServer.clientDone # <<>>
        /\ wsServer' = [wsServer EXCEPT !.clients = @ \ {Head(wsServer.clientDone)},
                                        !.clientDone = Tail(@)]
     \/ /\ wsServer.ctxDone
        /\ wsServer' = [wsServer EXCEPT !.watch = "done"]
  /\ UNCHANGED <<registry, nextInst, roomVars, chanVars, sessVars, panicked,
                 quota, nops, shut>>

\* main: a signal arrives; the context with the shutdown deadline is made
\* and WsServer.Shutdown is called
Signal ==
  /\ ~panicked
  /\ shut.pc = "idle"
  /\ shut' = [shut EXCEPT !.pc = "ws_cancel"]
  /\ UNCHANGED <<registry, nextInst, roomVars, chanVars, sessVars, panicked,
                 quota, nops, wsServer>>

\* the deadline of the shutdown context passes
Deadline ==
  /\ ~panicked
  /\ shut.pc \notin {"idle", "returned"}
  /\ ~shut.ctxDone
  /\ shut' = [shut EXCEPT !.ctxDone = TRUE]
  /\ UNCHANGED <<registry, nextInst, roomVars, chanVars, sessVars, panicked,
                 quota, nops, wsServer>>

\* WsServer.Shutdown: s.cancel(), then the copy of s.clients
WsShutdownCancel ==
  /\ ~panicked
  /\ shut.pc = "ws_cancel"
  /\ wsServer' = [wsServer EXCEPT !.ctxDone = TRUE]
  /\ shut' = [shut EXCEPT !.conns = wsServer.clients, !.pc = "ws_close"]
  /\ UNCHANGED <<registry, nextInst, roomVars, chanVars, sessVars, panicked,
                 quota, nops>>

\* WsServer.Shutdown: the next copied client is cancelled and its connection
\* closed; after the last one the poll loop starts
WsShutdownClose ==
  /\ ~panicked
  /\ shut.pc = "ws_close"
  /\ \/ /\ shut.conns = {}
        /\ shut' = [shut EXCEPT !.pc = "ws_poll"]
        /\ UNCHANGED <<conn, cancelled>>
     \/ \E c \in shut.conns :
          /\ cancelled' = [cancelled EXCEPT ![c] = TRUE]
          /\ conn' = [conn EXCEPT ![c] = "closed"]
          /\ shut' = [shut EXCEPT !.conns = @ \ {c}]
  /\ UNCHANGED <<registry, nextInst, roomVars, chanVars, sess, writer,
                 panicked, quota, nops, wsServer>>

\* WsServer.Shutdown: the poll loop returns nil when s.clients is empty, the
\* context's error when the deadline has passed, and waits for the next tick
\* otherwise; main then calls Coordinator.Shutdown
WsShutdownPoll ==
  /\ ~panicked
  /\ shut.pc = "ws_poll"
  /\ \/ /\ wsServer.clients = {}
        /\ shut' = [shut EXCEPT !.wsErr = "nil", !.pc = "cs_range"]
     \/ /\ wsServer.clients # {}
        /\ shut.ctxDone
        /\ shut' = [shut EXCEPT !.wsErr = "deadline", !.pc = "cs_range"]
  /\ UNCHANGED <<registry, nextInst, roomVars, chanVars, sessVars, panicked,
                 quota, nops, wsServer>>

\* Coordinator.Shutdown: the range over c.rooms.rooms starts
ShutdownRange ==
  /\ ~panicked
  /\ shut.pc = "cs_range"
  /\ shut' = [shut EXCEPT !.visit = DOMAIN registry, !.seen = registry,
                          !.rooms = {}, !.pc = "cs_iter"]
  /\ UNCHANGED <<registry, nextInst, roomVars, chanVars, sessVars, panicked,
                 quota, nops, wsServer>>

\* Coordinator.Shutdown: the range reads the next key of the map, or ends.
\* When the map was written since the range's last step, the step reads the
\* map as it is now, or the run-time stops the process (concurrent map
\* iteration and map write)
ShutdownIter ==
  /\ ~panicked
  /\ shut.pc = "cs_iter"
  /\ \/ /\ registry # shut.seen
        /\ panicked' = TRUE
        /\ UNCHANGED shut
     \/ /\ shut.visit = {}
        /\ shut' = [shut EXCEPT !.seen = registry, !.pc = "cs_select"]
        /\ UNCHANGED panicked
     \/ /\ \E k \in shut.visit :
             shut' = [shut EXCEPT !.visit = @ \ {k}, !.seen = registry,
                        !.rooms = IF registry[k] = 0 THEN @ ELSE @ \cup {registry[k]}]
        /\ UNCHANGED panicked
  /\ UNCHANGED <<registry, nextInst, roomVars, chanVars, sessVars,
                 quota, nops, wsServer>>

\* Coordinator.Shutdown: before each copied room, the select on ctx.Done();
\* after the last one, return nil
ShutdownSelect ==
  /\ ~panicked
  /\ shut.pc = "cs_select"
  /\ IF shut.rooms = {}
     THEN shut' = [shut EXCEPT !.coordErr = "nil", !.pc = "returned"]
     ELSE IF shut.ctxDone
          THEN shut' = [shut EXCEPT !.coordErr = "deadline", !.pc = "returned"]
          ELSE \E i \in shut.rooms :
                 shut' = [shut EXCEPT !.room = i, !.pc = "cs_enqueue"]
  /\ UNCHANGED <<registry, nextInst, roomVars, chanVars, sessVars, panicked,
                 quota, nops, wsServer>>

\* Coordinator.Shutdown: the default case, room.EnqueueClose()
ShutdownEnqueue ==
  /\ ~panicked
  /\ shut.pc = "cs_enqueue"
  /\ EnqueueClose(shut.room)
  /\ shut' = [shut EXCEPT !.rooms = @ \ {shut.room}, !.pc = "cs_select"]
  /\ UNCHANGED <<registry, nextInst, roomInfo, rstate, users, clients, proc,
                 loop, chanVars, sessVars, panicked, quota, nops, wsServer>>

WsShutdown == WsShutdownCancel \/ WsShutdownClose \/ WsShutdownPoll

CoordinatorShutdown == ShutdownRange \/ ShutdownIter \/ ShutdownSelect \/ ShutdownEnqueue

\* one session whose peer creates a room, leaves it and sends messages, a
\* second one that stays idle, and the shutdown of the process
ShutdownFrames ==
  [create |-> {Frame("create_room", "r1", "n", "u1", "a", 0)},
   join |-> {Frame("join", "r1", "", "u1", "a", 0)},
   leave |-> {Frame("leave", "r1", "", "", "", 0)},
   message |-> {Frame("message", "r1", "", "", "", 1)}]

NextShutdown ==
  \/ \E s \in Sessions : Reader(s, ShutdownFrames)
  \/ Server
  \/ \E s \in Sessions : ServeHTTPReturn(s)
  \/ watchClients
  \/ Signal
  \/ Deadline
  \/ WsShutdown
  \/ CoordinatorShutdown

SpecShutdown == InitSession /\ [][NextShutdown]_vars

\* C28: Coordinator.Shutdown returns as soon as every Close is enqueued or the
\* deadline has passed, whatever the state of the rooms' event queues and
\* loops: once the deadline has passed, a Shutdown that has not returned is
\* never left waiting, its next step can always be taken.
C28_ShutdownReturns ==
  (~panicked /\ shut.ctxDone /\ shut.pc \in {"cs_range", "cs_iter", "cs_select", "cs_enqueue"})
    => ENABLED CoordinatorShutdown

\* a session is live from its accept until its reader has returned
Live(s) == sess[s].pc \notin {"exited", "ended"}

\* C29: the server keeps every live session in its connection set, so that
\* the set WsServer.Shutdown works on holds every session that is live when
\* the shutdown starts; Shutdown returns nil only once every session has
\* ended and has been removed from the set.
C29_ShutdownDrainsSessions ==
  /\ shut.pc # "idle" => \A s \in Sessions : Live(s) => s \in wsServer.clients
  /\ shut.wsErr = "nil" =>
       /\ wsServer.clients = {}
       /\ \A s \in Sessions : ~Live(s)

\* C30: every access to the registry's map is made under the registry's
\* lock: no Store or Delete runs while a read of the map is in progress,
\* the range of Coordinator.Shutdown included.
C30_RegistryLocked ==
  [][registry' # registry => shut.pc # "cs_iter"]_vars

\* C31: submitting an event to a room never blocks the submitter
\* indefinitely: a caller that still has an event to submit is never left
\* waiting on a room whose loop has returned, where nothing will ever take
\* an event out of the queue again; its submission can complete or give up.
C31_EnqueueNeverStuck ==
  (~panicked /\ nops < MaxOps /\ rstate[1] = "done") =>
     /\ ENABLED (\E u \in UserIds, c \in Sessions : CallEnqueueJoin(1, u, c))
     /\ ENABLED (\E u \in UserIds : CallEnqueueLeave(1, u))
     /\ ENABLED CallEnqueueBroadcast(1)
     /\ ENABLED CallEnqueueClose(1)

\* the next event of room i is a Leave whose handler closes send channel c
ClosesSink(i, c) ==
  /\ rstate[i] = "running" /\ loop[i].pc = "idle" /\ events[i] # <<>>
  /\ NextEvent(i).kind = "leave"
  /\ NextEvent(i).userID \in DOMAIN clients[i]
  /\ clients[i][NextEvent(i).userID] = c

\* C32: no send channel is closed more than once: whenever a room applies a
\* Leave that closes a session's channel, no Leave (of this or of another
\* room) has closed that channel before.
C32_SinkClosedOnce ==
  [][\A i \in Insts, c \in Sessions :
       (RoomRecv(i) /\ ClosesSink(i, c)) => ~closed[c]]_vars

\* C33: no producer sends on a send channel that has been closed: neither
\* the session's own reader (an error reply, join_success), nor CreateRoom's
\* new_room write, nor a room's broadcast.
C33_NoSendOnClosedSink ==
  [][/\ \A s \in Sessions :
          (sendError(s) \/ JoinSuccess(s) \/ CreateRoomSend(s)) => ~closed[s]
     /\ \A i \in Insts, u \in UserIds :
          RoomSend(i, u) => ~closed[loop[i].pending[u]]]_vars

\* C34: whenever JoinRoom returns success, the Join is applied by a running
\* loop and the user becomes a member: when the call has returned nil and
\* the session is about to write join_success, the loop of the room it
\* joined has not returned (a loop that has returned applies no Join, and
\* has cleared its member table if it applied one).
C34_AcknowledgedJoinNotLost ==
  \A s \in Sessions :
    (~panicked /\ sess[s].pc = "jn_ok") => rstate[sess[s].room] # "done"

\* C35: when several CreateRoom calls with one room id run concurrently, a
\* room stored in the registry is never replaced by another room while it
\* is registered: an entry of the registry changes only from no room to a
\* room, or from a room to no room.
C35_NoOverwrite ==
  [][\A r \in DOMAIN registry :
       registry[r] # 0 => registry'[r] \in {registry[r], 0}]_vars

\* room i has a Join in its event queue that its loop has not applied yet
JoinPending(i) == \E k \in 1..Len(events[i]) : events[i][k].kind = "join"

\* C36: a room is removed from the registry (and then closed) only when it
\* has no member and no Join still pending in its event queue.
C36_DeleteOnlyEmptyRooms ==
  [][\A s \in Sessions :
       DeleteRoomDelete(s) =>
         /\ DOMAIN users[sess[s].gc] = {}
         /\ ~JoinPending(sess[s].gc)]_vars

\* a Join of session s's user was submitted to a room created under id r
JoinSubmitted(s, r) ==
  \E i \in Insts :
    /\ rstate[i] # "none" /\ roomInfo[i].ID = r
    /\ \E k \in 1..Len(Hist(i)) :
         Hist(i)[k].kind = "join" /\ Hist(i)[k].user = sess[s].userID

\* C37: when Coordinator.CreateRoom rejects a create_room command, the room
\* id is in the session's rooms only if it was there before, that is only
\* if a create or join of that room by this session succeeded: at the
\* moment the create_room_error reply is due, a room id the session holds
\* is one of a room its user was submitted to.
C37_RejectedCreateNotRecorded ==
  \A s \in Sessions :
    (sess[s].pc = "sendError" /\ sess[s].code = "create_room_error") =>
       \A r \in sess[s].rooms : JoinSubmitted(s, r)

(***************************************************************************)
(* One session with a send channel of capacity CallerCap, a peer that can  *)
(* close the connection, and a writer pump that receives one value at a    *)
(* time: the channel can be full, a room's send to it can time out, and    *)
(* the pump can return on a failed write while values are still sent on    *)
(* its channel.                                                            *)
(***************************************************************************)
InitSlow ==
  /\ registry = [r \in RoomIds |-> 0]
  /\ nextInst = 0
  /\ roomInfo = [i \in Insts |-> NoRoom]
  /\ rstate = [i \in Insts |-> "none"]
  /\ users = [i \in Insts |-> EmptyMap]
  /\ clients = [i \in Insts |-> EmptyMap]
  /\ events = [i \in Insts |-> <<>>]
  /\ enq = [i \in Insts |-> 0]
  /\ proc = [i \in Insts |-> <<>>]
  /\ loop = [i \in Insts |-> IdleLoop]
  /\ InitChans(CallerCap)
  /\ quota = [s \in Sessions |-> IF s = 1 THEN MaxFrames + 2 ELSE 0]

SlowFrames ==
  [create |-> {Frame("create_room", "r1", "n", "u1", "a", 0)},
   join |-> {Frame("join", "r1", "", "u1", "a", 0)},
   leave |-> {Frame("leave", "r1", "", "", "", 0)},
   message |-> {Frame("message", "r1", "", "", "", 1)}]

NextSlow ==
  \/ \E s \in Sessions : Reader(s, SlowFrames)
  \/ \E s \in Sessions : Coordinator(s)
  \/ \E s \in Sessions : PeerClose(s)
  \/ \E s \in Sessions : WriterRecv(s)
  \/ \E s \in Sessions : WriterStop(s)
  \/ \E i \in Insts : RoomRecv(i)
  \/ \E i \in Insts, u \in UserIds : RoomSend(i, u)
  \/ \E i \in Insts, u \in UserIds : RoomSkip(i, u)

SpecSlow == InitSlow /\ [][NextSlow]_vars

\* the reader of session s is at a write on its own send channel
WritesOwnSink(s) == sess[s].pc \in {"sendError", "jn_ok", "cr_send"}

\* C38: a session's reader never blocks forever on its own send channel:
\* once the writer pump has returned, nothing receives from the channel any
\* more, so a reader that is at a write on it (an error reply, join_success
\* or new_room) must be able to complete the write or to give it up.
C38_ReaderNotStuck ==
  \A s \in Sessions :
    (~panicked /\ writer[s] = "done" /\ WritesOwnSink(s)) =>
       ENABLED (sendError(s) \/ JoinSuccess(s) \/ CreateRoomSend(s))

\* C39: whenever a session has a bound identity, both its user id and its
\* user name are non-empty.
C39_BoundIdentityHasName ==
  \A s \in Sessions : sess[s].userID # "" => sess[s].userName # ""

====
